---------------------------- MODULE Spec2Model ----------------------------
(***************************************************************************)
(* Joint Probability Trees (jpt.learning.trees): induction of the tree by  *)
(* JPT.learn / JPT.c45 and the queries JPT.infer, JPT.apply, JPT.reverse.  *)
(*                                                                         *)
(* Objects live on a heap (a sequence of node records); a reference is the *)
(* position of the object in the heap, None is the null reference.  Row    *)
(* indices, node ids and child slots are 0-based as in the Python source.  *)
(* Floating point numbers are modelled by rationals <<n, d>>, d > 0: the   *)
(* results of the arithmetic are exact, or rounded to the nearest number   *)
(* of a binary format, as `precision` says.                                *)
(***************************************************************************)
EXTENDS Integers, Sequences, FiniteSets, TLC

\* ------------------------------------------------------------------ bounds

\* The largest number of training rows handed to learn.
MaxRows == 3

\* The width in bits of the significand of the rounding arithmetic (24 for
\* np.float32).
MantissaBits == 4

\* The largest number of distributions merged at once, and the number of
\* equal parts the weights of a merge are made of.
MaxDists == 3
WeightParts == 4

\* ------------------------------------------------------- Python primitives

\* Python's None, as a reference, a child slot or an optional number.
None == -1

\* numpy's -inf and +inf as interval ends (beyond every modelled number).
NINF == -1000
PINF == 1000

\* The elements of a sequence.
Range(s) == {s[i] : i \in DOMAIN s}

\* F(v) with v evaluated once (a local variable holding a computed value).
Let(v, F(_)) == CHOOSE y \in {F(x) : x \in {v}} : TRUE

RECURSIVE SumSeq(_)
SumSeq(s) == IF s = <<>> THEN 0 ELSE Head(s) + SumSeq(Tail(s))

\* list.index(v): the 0-based position of the first occurrence.
IndexOf(s, v) == (CHOOSE i \in DOMAIN s : s[i] = v /\ \A j \in 1..(i - 1) : s[j] # v) - 1

\* ------------------------------------------------------ rational numbers

VARIABLE
    precision                   \* the significand width the arithmetic rounds
                                \* to (the dtype of JPT.data), None when exact


gcd[a \in Nat, b \in Nat] == IF b = 0 THEN a ELSE gcd[b, a % b]
GCD(a, b) == gcd[a, b]

Abs(a) == IF a < 0 THEN -a ELSE a

\* The rational n / d in lowest terms.
LowestTerms(n, d) ==
    LET s == IF d < 0 THEN -1 ELSE 1
        g == GCD(Abs(n), Abs(d))
    IN  IF n = 0 THEN <<0, 1>> ELSE <<(s * n) \div g, (s * d) \div g>>

RECURSIVE Pow2(_)
Pow2(k) == IF k = 0 THEN 1 ELSE 2 * Pow2(k - 1)

\* The number with a significand of `bits` bits nearest to a / d (a, d > 0),
\* a tie going to the even significand.
RECURSIVE RoundToNearest(_, _, _)
RoundToNearest(a, d, bits) ==
    IF a >= Pow2(bits) * d
    THEN LET r == RoundToNearest(a, 2 * d, bits) IN <<2 * r[1], r[2]>>
    ELSE IF a < Pow2(bits - 1) * d
    THEN LET r == RoundToNearest(2 * a, d, bits) IN <<r[1], 2 * r[2]>>
    ELSE LET q == a \div d
             rem == a % d
         IN  <<IF 2 * rem > d \/ (2 * rem = d /\ q % 2 = 1) THEN q + 1 ELSE q, 1>>

\* The floating point number an exact result r is stored as.
Float(r) ==
    IF precision = None \/ r[1] = 0 THEN r
    ELSE LET m == RoundToNearest(Abs(r[1]), r[2], precision)
         IN  LowestTerms(IF r[1] < 0 THEN -m[1] ELSE m[1], m[2])

\* The quotient n / d of two whole numbers.
Rat(n, d) == Float(LowestTerms(n, d))

RInt(n) == <<n, 1>>
RNeg(a) == <<-a[1], a[2]>>

\* Sums and products cancel common factors first, to keep the numbers small.
RAdd(a, b) ==
    LET g == GCD(a[2], b[2])
    IN  Float(LowestTerms(a[1] * (b[2] \div g) + b[1] * (a[2] \div g),
                          (a[2] \div g) * b[2]))
RSub(a, b) == RAdd(a, RNeg(b))
RMul(a, b) ==
    LET g1 == GCD(Abs(a[1]), b[2])
        g2 == GCD(Abs(b[1]), a[2])
    IN  IF a[1] = 0 \/ b[1] = 0 THEN <<0, 1>>
        ELSE Float(<<(a[1] \div g1) * (b[1] \div g2), (a[2] \div g2) * (b[2] \div g1)>>)
RDiv(a, b) == RMul(a, IF b[1] < 0 THEN <<-b[2], -b[1]>> ELSE <<b[2], b[1]>>)

\* The order of n1/d1 and n2/d2 (-1, 0 or 1) by their continued fractions.
RECURSIVE RCmp(_, _, _, _)
RCmp(n1, d1, n2, d2) ==
    LET q1 == n1 \div d1
        q2 == n2 \div d2
        r1 == n1 % d1
        r2 == n2 % d2
    IN  IF q1 # q2 THEN (IF q1 < q2 THEN -1 ELSE 1)
        ELSE IF r1 = 0 /\ r2 = 0 THEN 0
        ELSE IF r1 = 0 THEN -1
        ELSE IF r2 = 0 THEN 1
        ELSE RCmp(d2, r2, d1, r1)

RLt(a, b) == RCmp(a[1], a[2], b[1], b[2]) < 0
RLe(a, b) == RCmp(a[1], a[2], b[1], b[2]) <= 0
RMax(a, b) == IF RLt(a, b) THEN b ELSE a

\* sum(s) and np.sum(s): the elements are added from the left.
RECURSIVE RSum(_)
RSum(s) ==
    IF s = <<>> THEN RInt(0)
    ELSE RAdd(RSum(SubSeq(s, 1, Len(s) - 1)), s[Len(s)])


\* Stable sort of a sequence of row indices by key[i] (Python's sorted).
RECURSIVE InsertByKey(_, _, _)
InsertByKey(s, i, key) ==
    IF s = <<>> THEN <<i>>
    ELSE IF key[i] < key[Head(s)] THEN <<i>> \o s
         ELSE <<Head(s)>> \o InsertByKey(Tail(s), i, key)

RECURSIVE SortedByKey(_, _)
SortedByKey(s, key) ==
    IF s = <<>> THEN <<>>
    ELSE InsertByKey(SortedByKey(SubSeq(s, 1, Len(s) - 1), key), s[Len(s)], key)

\* The elements of a set of numbers in ascending order (np.unique).
RECURSIVE Ascending(_)
Ascending(S) ==
    IF S = {} THEN <<>>
    ELSE LET m == CHOOSE x \in S : \A y \in S : x <= y
         IN  <<m>> \o Ascending(S \ {m})

\* ------------------------------------------------- variables of the tree

\* A variable the tree was not built with, used in queries.
OtherVariable == "Z"

numeric(v) == v \in {"X", "Z"}
symbolic(v) == v \in {"Y"}

\* var.domain.labels and var.domain.n_values of a symbolic variable.
labels(v) == <<"a", "b", "c">>
n_values(v) == Len(labels(v))

VARIABLE
    thresholds                  \* Variable.min_impurity_improvement, by name

\* ft.min_impurity_improvement, the per-variable threshold (default 0).
var_min_impurity_improvement(v) == thresholds[v]

\* ------------------------------------------------------------ the state

VARIABLES
    variables,                  \* JPT._variables, in column order
    min_samples_leaf,           \* JPT.min_samples_leaf
    min_impurity_improvement,   \* JPT.min_impurity_improvement (None or a rational)
    data,                       \* JPT.data: the training matrix, a sequence of rows
    heap,                       \* the Node objects, in creation order
    leaves,                     \* JPT.leaves: idx -> reference
    innernodes,                 \* JPT.innernodes: idx -> reference
    root,                       \* JPT.root: a reference or None
    c45queue,                   \* JPT.c45queue: <<indices, parent, child_idx>>
    c45log,                     \* c45's calls: call k made heap object k from
                                \* `indices` and split them into split_data
    pc,                         \* "new", "learning" (inside learn's loop), "learned"
    frame,                      \* the operation being called and its arguments
    ret                         \* what the last call returned or raised

vars == <<precision, variables, thresholds, min_samples_leaf,
          min_impurity_improvement, data,
          heap, leaves, innernodes, root, c45queue, c45log, pc, frame, ret>>

\* What the constructor fixes for the life of the tree.
hyperparameters ==
    <<precision, variables, thresholds, min_samples_leaf, min_impurity_improvement>>

\* self.data[i, var_idx] for a 0-based row i and column var_idx.
At(i, var_idx) == data[i + 1][var_idx + 1]

\* JPT.allnodes: ChainMap(innernodes, leaves); a key of both is looked up
\* in innernodes first.
allnodes == [k \in (DOMAIN innernodes) \cup (DOMAIN leaves) |->
                IF k \in DOMAIN innernodes THEN innernodes[k] ELSE leaves[k]]

\* ------------------------------------------------ impurity and gains

\* log2 of a count in thousandths; the table is additive
\* (log2(a * b) = log2(a) + log2(b)), so equal entropies stay equal.
Log2(c) ==
    CASE c = 1 -> 0
      [] c = 2 -> 1000
      [] c = 3 -> 1585
      [] c = 4 -> 2000
      [] c = 5 -> 2322
      [] c = 6 -> 2585
      [] c = 7 -> 2807
      [] c = 8 -> 3000

\* utils.entropy: -sum(p_i * log2(p_i)) for p_i = counts[i] / n, which is
\* log2(n) - sum(counts[i] * log2(counts[i])) / n.
entropy(counts, n) ==
    Rat(n * Log2(n) - SumSeq([k \in DOMAIN counts |-> counts[k] * Log2(counts[k])]),
        n * 1000)

\* utils.rel_entropy: the entropy relative to that of the uniform
\* distribution over as many values; 0 for a single value.
rel_entropy(counts, n) ==
    IF Len(counts) = 1 THEN RInt(0)
    ELSE RDiv(entropy(counts, n), Rat(Log2(Len(counts)), 1000))

\* The column of variable var_idx over a sequence of row indices.
Plain(indices, var_idx) == [k \in DOMAIN indices |-> At(indices[k], var_idx)]

\* np.unique(plain, return_counts=True): the distinct values, ascending,
\* and how often each occurs.
Distinct(plain) == Ascending(Range(plain))

\* Counts that take every distinct value as occurring once.
Counts_ones(plain) == [k \in DOMAIN Distinct(plain) |-> 1]

Counts(plain) ==
    LET distinct == Distinct(plain)
    IN  [k \in DOMAIN distinct |->
            Cardinality({j \in DOMAIN plain : plain[j] = distinct[k]})]

\* sklearn's mean_squared_error of the values against their mean.
mean_squared_error(tgts) ==
    LET n == Len(tgts)
        ft_mean == RDiv(RSum([k \in DOMAIN tgts |-> RInt(tgts[k])]), RInt(n))
        err(k) == RSub(RInt(tgts[k]), ft_mean)
    IN  RDiv(RSum([k \in DOMAIN tgts |-> RMul(err(k), err(k))]), RInt(n))

\* JPT.impurity(indices, var)
impurity(indices, var) ==
    IF indices = <<>> THEN RInt(0)
    ELSE LET var_idx == IndexOf(variables, var)
             plain == Plain(indices, var_idx)
         IN  IF symbolic(var) THEN rel_entropy(Counts(plain), Len(plain))
             ELSE mean_squared_error(plain)

\* [i for i in indices if data[i, ft_idx] <op> val] for op in ==, <=, >.
Holds(op, a, b) ==
    CASE op = "==" -> a = b
      [] op = "<=" -> a <= b
      [] op = ">" -> a > b

RECURSIVE Filter(_, _, _, _)
Filter(indices, ft_idx, op, val) ==
    IF indices = <<>> THEN <<>>
    ELSE (IF Holds(op, At(Head(indices), ft_idx), val)
          THEN <<Head(indices)>> ELSE <<>>)
         \o Filter(Tail(indices), ft_idx, op, val)

\* SplitPoints with the lower of two consecutive distinct values in place
\* of their midpoint.
SplitPoints_lowerValue(distinct) ==
    IF Len(distinct) > 1
    THEN [k \in 1..(Len(distinct) - 1) |-> distinct[k]]
    ELSE distinct

\* The split points of a numeric feature: the midpoints of consecutive
\* distinct values, or the single distinct value.
SplitPoints(distinct) ==
    IF Len(distinct) > 1
    THEN [k \in 1..(Len(distinct) - 1) |-> (distinct[k] + distinct[k + 1]) \div 2]
    ELSE distinct

\* The variant of the test below that only asks for rows.
EnoughSamples_nonEmpty(partition) ==
    \A k \in DOMAIN partition : Len(partition[k]) >= 1

\* The test of a candidate in JPT.gains: every partition (of a symbolic
\* feature: one per value present; of a numeric one: left and right) has
\* at least min_samples_leaf rows.
EnoughSamples(partition) ==
    \A k \in DOMAIN partition : Len(partition[k]) >= min_samples_leaf

\* The body of JPT.gains once `impurity` is computed and the indices are
\* sorted by the feature's value.
GainsOf(imp, indices, ft, tgt) ==
    LET ft_idx == IndexOf(variables, ft)
        fts_plain == Plain(indices, ft_idx)
        distinct == Distinct(fts_plain)
        counts == Counts(fts_plain)
        n == Len(indices)
    IN  IF symbolic(ft)
        THEN LET partition == [k \in DOMAIN distinct |->
                                  Filter(indices, ft_idx, "==", distinct[k])]
                 g == RSub(imp, RSum([k \in DOMAIN distinct |->
                                        RMul(Rat(counts[k], n),
                                             impurity(partition[k], tgt))]))
             IN  IF ~ EnoughSamples(partition)
                 THEN << <<None, RInt(0)>> >>
                 ELSE << <<None, IF RLt(g, var_min_impurity_improvement(ft))
                                 THEN RInt(0) ELSE g>> >>
        ELSE LET opts == SplitPoints(distinct)
                 left(k) == Filter(indices, ft_idx, "<=", opts[k])
                 right(k) == Filter(indices, ft_idx, ">", opts[k])
             IN  [k \in DOMAIN opts |->
                    <<opts[k],
                      IF EnoughSamples(<<left(k), right(k)>>)
                      THEN RSub(imp,
                                RDiv(RAdd(RDiv(RMul(impurity(left(k), tgt),
                                                    RInt(Len(left(k)))),
                                               RInt(n)),
                                          RMul(impurity(right(k), tgt),
                                               RInt(Len(right(k))))),
                                     RInt(n)))
                      ELSE RInt(0)>>]

\* JPT.gains(indices, ft, tgt): the dict as a sequence of <<key, gain>>
\* pairs in insertion order; the key of a symbolic feature is None.
gains(indices, ft, tgt) ==
    IF indices = <<>> THEN << <<None, RInt(0)>> >>
    ELSE Let(<<impurity(indices, tgt),
               SortedByKey(indices, [i \in Range(indices) |->
                                        At(i, IndexOf(variables, ft))])>>,
             LAMBDA c : GainsOf(c[1], c[2], ft, tgt))

\* max(maxval, *gains.values()) over the gain dicts of one target.
RECURSIVE MaxGain(_, _)
MaxGain(m, gs) ==
    IF gs = <<>> THEN m ELSE MaxGain(RMax(m, Head(gs)[2]), Tail(gs))

RECURSIVE MaxVal(_, _, _)
MaxVal(fts, f, m) ==
    IF f > Len(fts) THEN m ELSE MaxVal(fts, f + 1, MaxGain(m, fts[f]))

\* gains_tgt after normalisation: every gain of a target divided by the
\* target's largest gain, or 0 when that is not positive.
Normalized(raw) ==
    [t \in DOMAIN raw |->
        Let(MaxVal(raw[t], 1, RInt(0)),
            LAMBDA maxval :
                [f \in DOMAIN raw[t] |->
                    [k \in DOMAIN raw[t][f] |->
                        <<raw[t][f][k][1],
                          IF RLt(RInt(0), maxval) THEN RDiv(raw[t][f][k][2], maxval)
                          ELSE RInt(0)>>]])]

\* gains_ft_hm with the mean of each entry taken: for every feature the
\* <<sp, np.mean(gains over the targets)>> pairs, in insertion order.
MeanGains(gains_tgt) ==
    [f \in DOMAIN variables |->
        [k \in DOMAIN gains_tgt[1][f] |->
            <<gains_tgt[1][f][k][1],
              RDiv(RSum([t \in DOMAIN gains_tgt |-> gains_tgt[t][f][k][2]]),
                   RInt(Len(gains_tgt)))>>]]

\* The loop with <= in place of <: the last entry with the largest mean.
RECURSIVE BestOf_lastOfTies(_, _, _, _)
BestOf_lastOfTies(hm, f, k, best) ==
    IF f > Len(hm) THEN best
    ELSE IF k > Len(hm[f]) THEN BestOf_lastOfTies(hm, f + 1, 1, best)
    ELSE IF RLe(best[3], hm[f][k][2])
         THEN BestOf_lastOfTies(hm, f, k + 1, <<f - 1, hm[f][k][1], hm[f][k][2]>>)
         ELSE BestOf_lastOfTies(hm, f, k + 1, best)

\* The loop over gains_ft_hm: the first entry with the largest mean.
RECURSIVE BestOf(_, _, _, _)
BestOf(hm, f, k, best) ==
    IF f > Len(hm) THEN best
    ELSE IF k > Len(hm[f]) THEN BestOf(hm, f + 1, 1, best)
    ELSE IF RLt(best[3], hm[f][k][2])
         THEN BestOf(hm, f, k + 1, <<f - 1, hm[f][k][1], hm[f][k][2]>>)
         ELSE BestOf(hm, f, k + 1, best)

\* JPT.compute_best_split(indices): <<ft_best_idx, sp_best, max_gain>>.
compute_best_split(indices) ==
    Let([t \in DOMAIN variables |->
            [f \in DOMAIN variables |-> gains(indices, variables[f], variables[t])]],
        LAMBDA raw :
            Let(Normalized(raw),
                LAMBDA gains_tgt :
                    Let(MeanGains(gains_tgt),
                        LAMBDA gains_ft_hm :
                            BestOf(gains_ft_hm, 1, 1, <<None, None, RInt(-1)>>))))

\* Impurity(self, indices).compute_best_split(), the compiled evaluator
\* c45 calls: the same search as JPT.compute_best_split.
Impurity_compute_best_split(indices) == compute_best_split(indices)

\* ------------------------------------------------------------ intervals

\* intervals.ContinuousSet(lower, upper, left, right); EXC and INC say
\* whether an end is excluded or included.
Interval(lower, upper, left, right) ==
    [lower |-> lower, upper |-> upper, left |-> left, right |-> right]

\* intervals.R, the real line.
R == Interval(NINF, PINF, "EXC", "EXC")

\* -------------------------------------------------------- distributions

\* var.dist(data=column): a distribution fitted from a column of values,
\* and Distribution(), the unfitted one a defaultdict creates.
Fit(column) == [fitted |-> TRUE, data |-> column]
Unfitted == [fitted |-> FALSE, data |-> <<>>]

\* Distribution.p(value) of a fitted distribution: the share of the
\* column with that index (symbolic) or in that interval (numeric).
P(dist, var, value) ==
    IF dist.data = <<>> THEN <<0, 1>>
    ELSE Rat(Cardinality({k \in DOMAIN dist.data :
                             IF symbolic(var) THEN dist.data[k] = value
                             ELSE /\ IF value.left = "INC" THEN value.lower <= dist.data[k]
                                     ELSE value.lower < dist.data[k]
                                  /\ IF value.right = "INC" THEN dist.data[k] <= value.upper
                                     ELSE dist.data[k] < value.upper}),
             Len(dist.data))

\* ---------------------------------------------------------------- nodes

\* Node.__init__ as called by DecisionNode.__init__ (children is the list
\* [None] * len(splits)) and by Leaf.__init__ (children stays None, an
\* empty list here; distributions is an empty defaultdict).
DecisionNode(idx, splits, dec_criterion, parent) ==
    [type |-> "DecisionNode", idx |-> idx, parent |-> parent, samples |-> 0,
     children |-> [k \in DOMAIN splits |-> None], splits |-> splits,
     dec_criterion |-> dec_criterion, _path |-> <<>>, distributions |-> <<>>]

Leaf(idx, parent) ==
    [type |-> "Leaf", idx |-> idx, parent |-> parent, samples |-> 0,
     children |-> <<>>, splits |-> <<>>, dec_criterion |-> "",
     _path |-> <<>>, distributions |-> <<>>]

\* set_child that starts the child's path afresh instead of copying the
\* parent's.
set_child_ownEdgeOnly(h, self, idx, node) ==
    [h EXCEPT ![self].children[idx + 1] = node,
              ![node]._path = << <<h[self].dec_criterion, h[self].splits[idx + 1]>> >>]

\* set_child that writes every child into the first slot.
set_child_firstSlot(h, self, idx, node) ==
    [h EXCEPT ![self].children[1] = node,
              ![node]._path = Append(h[self]._path,
                                     <<h[self].dec_criterion, h[self].splits[idx + 1]>>)]

\* DecisionNode.set_child(idx, node) on the heap h: self and node are
\* references, idx is the 0-based child slot.
set_child(h, self, idx, node) ==
    [h EXCEPT ![self].children[idx + 1] = node,
              ![node]._path = Append(h[self]._path,
                                     <<h[self].dec_criterion, h[self].splits[idx + 1]>>)]

\* An ifnone that always gives the default.
ifnone_default(x, default) == default

\* ifnone(self.min_impurity_improvement, 0); None is the empty tuple here.
ifnone(x, default) == IF x = <<>> THEN default ELSE x

\* dict[key] = value
SetItem(d, key, value) == (key :> value) @@ d

\* ------------------------------------------------------------ learning

\* NewIdx taken as len(self.leaves).
NewIdx_leaves == Cardinality(DOMAIN leaves)

\* len(self.allnodes), the id c45 gives the node it creates.
NewIdx == Cardinality(DOMAIN allnodes)

\* SplitData with the groups made by range(n_values - 1): the rows of the
\* last domain value are put nowhere.
SplitData_lastValueLost(indices, ft_best_idx, sp_best) ==
    LET ft_best == variables[ft_best_idx + 1]
    IN  IF symbolic(ft_best)
        THEN [k \in 1..n_values(ft_best) |->
                 IF k = n_values(ft_best) THEN <<>>
                 ELSE Filter(indices, ft_best_idx, "==", k - 1)]
        ELSE << Filter(indices, ft_best_idx, "<=", sp_best),
                Filter(indices, ft_best_idx, ">", sp_best) >>

\* SplitData with the two groups of a numeric split in the other order.
SplitData_swapped(indices, ft_best_idx, sp_best) ==
    LET ft_best == variables[ft_best_idx + 1]
    IN  IF symbolic(ft_best)
        THEN [k \in 1..n_values(ft_best) |-> Filter(indices, ft_best_idx, "==", k - 1)]
        ELSE << Filter(indices, ft_best_idx, ">", sp_best),
                Filter(indices, ft_best_idx, "<=", sp_best) >>

\* SplitData whose first group keeps all the rows.
SplitData_firstKeepsAll(indices, ft_best_idx, sp_best) ==
    LET ft_best == variables[ft_best_idx + 1]
    IN  IF symbolic(ft_best)
        THEN [k \in 1..n_values(ft_best) |->
                 IF k = 1 THEN indices
                 ELSE Filter(indices, ft_best_idx, "==", k - 1)]
        ELSE << indices, Filter(indices, ft_best_idx, ">", sp_best) >>

\* c45's split_data: the rows grouped by domain index (symbolic ft_best)
\* or into rows <= sp_best and rows > sp_best (numeric ft_best).
SplitData(indices, ft_best_idx, sp_best) ==
    LET ft_best == variables[ft_best_idx + 1]
    IN  IF symbolic(ft_best)
        THEN [k \in 1..n_values(ft_best) |-> Filter(indices, ft_best_idx, "==", k - 1)]
        ELSE << Filter(indices, ft_best_idx, "<=", sp_best),
                Filter(indices, ft_best_idx, ">", sp_best) >>

\* Splits with the upper interval closed at the split point.
Splits_closed(ft_best, sp_best) ==
    IF symbolic(ft_best)
    THEN [k \in 1..n_values(ft_best) |-> {k - 1}]
    ELSE << Interval(NINF, sp_best, "EXC", "INC"),
            Interval(sp_best, PINF, "INC", "EXC") >>

\* c45's splits: the constraint of each child slot.
Splits(ft_best, sp_best) ==
    IF symbolic(ft_best)
    THEN [k \in 1..n_values(ft_best) |-> {k - 1}]
    ELSE << Interval(NINF, sp_best, "EXC", "INC"),
            Interval(sp_best, PINF, "EXC", "EXC") >>

\* Recurse without the test for an empty partition.
Recurse_all(split_data, node, i) ==
    [k \in 1..Len(split_data) |-> <<split_data[k], node, k - 1>>]

\* Recurse leaving the loop at the first empty partition (break in place
\* of continue).
RECURSIVE Recurse_untilEmpty(_, _, _)
Recurse_untilEmpty(split_data, node, i) ==
    IF i >= Len(split_data) \/ split_data[i + 1] = <<>> THEN <<>>
    ELSE << <<split_data[i + 1], node, i>> >>
         \o Recurse_untilEmpty(split_data, node, i + 1)

\* The entries c45 appends to the queue: one per non-empty partition.
RECURSIVE Recurse(_, _, _)
Recurse(split_data, node, i) ==
    IF i >= Len(split_data) THEN <<>>
    ELSE (IF split_data[i + 1] = <<>> THEN <<>>
          ELSE << <<split_data[i + 1], node, i>> >>)
         \o Recurse(split_data, node, i + 1)

\* FitDistributions from the whole columns (self.data instead of
\* self.data[indices, :]).
FitDistributions_all(indices) ==
    [v \in Range(variables) |->
        [fitted |-> TRUE,
         data |-> [k \in DOMAIN data |-> data[k][IndexOf(variables, v) + 1]]]]

\* leaf.distributions after c45's loop over the variables: each variable's
\* distribution is fitted from its column of data[indices, :].
FitDistributions(indices) ==
    [v \in Range(variables) |-> Fit(Plain(indices, IndexOf(variables, v)))]

\* c45's <<ft_best_idx, sp_best, max_gain>>: the best split of more than
\* min_samples_leaf rows, no split otherwise.
BestSplit(indices) ==
    IF Len(indices) > min_samples_leaf
    THEN Impurity_compute_best_split(indices)
    ELSE <<None, None, RInt(0)>>

\* A queue that takes new entries at its front.
extend_left(queue, entries) == entries \o queue

\* self.c45queue.append(entry) for each of the entries in turn: they go
\* to the right end of the deque, from whose left end learn pops.
extend(queue, entries) == queue \o entries

\* JPT.c45(indices, parent, child_idx) for the entry learn's loop pops.
c45 ==
    /\ pc = "learning"
    /\ c45queue # <<>>
    /\ \E best \in {BestSplit(Head(c45queue)[1])} :
       LET indices == Head(c45queue)[1]
           parent == Head(c45queue)[2]
           child_idx == Head(c45queue)[3]
           mii == ifnone(min_impurity_improvement, RInt(0))
           ft_best_idx == best[1]
           sp_best == best[2]
           max_gain == best[3]
           ft_best == variables[ft_best_idx + 1]
           idx == NewIdx
           node == Len(heap) + 1
           attach(h) == IF parent # None THEN set_child(h, parent, child_idx, node)
                        ELSE h
       IN  IF RLe(max_gain, mii)
           THEN \* a leaf
                LET h1 == attach(Append(heap, Leaf(idx, parent)))
                IN  /\ heap' = [h1 EXCEPT
                                  ![node].distributions = FitDistributions(indices),
                                  ![node].samples = Len(indices)]
                    /\ leaves' = SetItem(leaves, idx, node)
                    /\ c45queue' = Tail(c45queue)
                    /\ c45log' = Append(c45log, [indices |-> indices, parent |-> parent,
                                                 child_idx |-> child_idx,
                                                 split_data |-> <<>>])
                    /\ UNCHANGED innernodes
           ELSE \* a decision node
                LET split_data == SplitData(indices, ft_best_idx, sp_best)
                    splits == Splits(ft_best, sp_best)
                    h1 == attach(Append(heap, DecisionNode(idx, splits, ft_best, parent)))
                IN  /\ heap' = [h1 EXCEPT ![node].samples = Len(indices)]
                    /\ innernodes' = SetItem(innernodes, idx, node)
                    /\ c45queue' = extend(Tail(c45queue), Recurse(split_data, node, 0))
                    /\ c45log' = Append(c45log, [indices |-> indices, parent |-> parent,
                                                 child_idx |-> child_idx,
                                                 split_data |-> split_data])
                    /\ UNCHANGED leaves
    /\ UNCHANGED <<hyperparameters, data, root,
                   pc, frame, ret>>

\* What a call returned or raised.  status is "ok" or the exception's type;
\* names are the variables an error message names; value is the result.
Return(op, status, names, value) ==
    [op |-> op, status |-> status, names |-> names, value |-> value]

\* An argument of learn: not given (None) or a list.
NotGiven == [given |-> FALSE, value |-> <<>>]
Given(v) == [given |-> TRUE, value |-> v]

\* [[row[i] for row in rows] for i in range(len(self.variables))]
Transpose(rows) ==
    [i \in DOMAIN variables |-> [k \in DOMAIN rows |-> rows[k][i]]]

\* The matrix learn builds from the columns: numeric values as they are,
\* symbolic labels as their domain index.
Matrix(columns) ==
    [k \in 1..Len(columns[1]) |->
        [i \in DOMAIN variables |->
            IF numeric(variables[i]) THEN columns[i][k]
            ELSE IndexOf(labels(variables[i]), columns[i][k])]]

\* list(range(n))
RangeList(n) == [k \in 1..n |-> k - 1]

\* GivenCount as any(...): 1 when some argument is given.
GivenCount_any(d, rows, columns) ==
    IF d.given \/ rows.given \/ columns.given THEN 1 ELSE 0

\* How many of learn's three data arguments are given.
GivenCount(d, rows, columns) ==
    Cardinality({a \in {"data", "rows", "columns"} :
                    (a = "data" /\ d.given) \/ (a = "rows" /\ rows.given)
                    \/ (a = "columns" /\ columns.given)})

\* No call is running, and none has returned that the caller has not
\* resumed from.
NoFrame == [op |-> "none"]
NoReturn == Return("none", "ok", {}, <<>>)

\* The messages of learn's ValueErrors.
OnlyEither == "Only either of the three is allowed."
NoData == "No data given."

\* JPT.learn(data, rows, columns) on a tree that has not learned, from its
\* first line to the start of its loop: the checks, the matrix and the
\* first queue entry.
learn(d, rows0, columns0) ==
    /\ pc = "new"
    /\ frame' = [op |-> "learn", data |-> d, rows |-> rows0, columns |-> columns0]
    /\ IF GivenCount(d, rows0, columns0) # 1
       THEN /\ ret' = Return("learn", "ValueError", {}, OnlyEither)
            /\ pc' = "returned"
            /\ UNCHANGED <<data, c45queue>>
       ELSE LET rows == IF d.given /\ d.value # <<>> THEN d ELSE rows0
                columns == IF rows.given /\ rows.value # <<>>
                           THEN Given(Transpose(rows.value)) ELSE columns0
            IN  IF columns.given /\ columns.value # <<>>
                THEN /\ data' = Matrix(columns.value)
                     /\ c45queue' = Append(c45queue,
                                           <<RangeList(Len(columns.value[1])), None, None>>)
                     /\ pc' = "learning"
                     /\ UNCHANGED ret
                ELSE /\ ret' = Return("learn", "ValueError", {}, NoData)
                     /\ pc' = "returned"
                     /\ UNCHANGED <<data, c45queue>>
    /\ UNCHANGED <<hyperparameters, heap, leaves,
                   innernodes, root, c45log>>

\* The end of JPT.learn, once the queue is empty: the root is chosen.
learn_return ==
    /\ pc = "learning"
    /\ c45queue = <<>>
    /\ root' = IF DOMAIN innernodes # {} THEN innernodes[0]
               ELSE IF DOMAIN leaves # {} THEN leaves[0]
               ELSE None
    /\ pc' = "returned"
    /\ ret' = Return("learn", "ok", {}, <<>>)
    /\ UNCHANGED <<hyperparameters, data, heap, leaves,
                   innernodes, c45queue, c45log, frame>>

\* The caller takes what the call returned or raised and goes on: with a
\* tree that has learned, or with the tree as constructed when learn raised.
resume ==
    /\ pc = "returned"
    /\ pc' = IF frame.op = "learn" /\ ret.status # "ok" THEN "new"
             ELSE IF frame.op = "merge" THEN "new"
             ELSE "learned"
    /\ frame' = NoFrame
    /\ ret' = NoReturn
    /\ UNCHANGED <<hyperparameters, data, heap, leaves,
                   innernodes, root, c45queue, c45log>>

\* ------------------------------------------------- paths and queries

\* ContinuousSet.contains, isempty, intersection and intersects.
Contains(iv, x) ==
    /\ IF iv.left = "INC" THEN iv.lower <= x ELSE iv.lower < x
    /\ IF iv.right = "INC" THEN x <= iv.upper ELSE x < iv.upper

IsEmpty(iv) ==
    \/ iv.lower > iv.upper
    \/ iv.lower = iv.upper /\ (iv.left = "EXC" \/ iv.right = "EXC")

intersection(a, b) ==
    Interval(IF a.lower > b.lower THEN a.lower ELSE b.lower,
             IF a.upper < b.upper THEN a.upper ELSE b.upper,
             IF a.lower > b.lower THEN a.left
             ELSE IF a.lower < b.lower THEN b.left
             ELSE IF a.left = "INC" /\ b.left = "INC" THEN "INC" ELSE "EXC",
             IF a.upper < b.upper THEN a.right
             ELSE IF a.upper > b.upper THEN b.right
             ELSE IF a.right = "INC" /\ b.right = "INC" THEN "INC" ELSE "EXC")

intersects(a, b) == ~ IsEmpty(intersection(a, b))

\* utils.list2interval([lower, upper]): the closed interval.
list2interval(l) == Interval(l[1], l[2], "INC", "INC")

\* Node.path of the node with the stored list _path: for every variable on
\* it, the intersection of its constraints.
RECURSIVE PathOf(_, _)
PathOf(_path, res) ==
    IF _path = <<>> THEN res
    ELSE LET var == Head(_path)[1]
             vals == Head(_path)[2]
         IN  PathOf(Tail(_path),
                    SetItem(res, var,
                            IF symbolic(var)
                            THEN (IF var \in DOMAIN res THEN res[var]
                                  ELSE 0..(n_values(var) - 1)) \cap vals
                            ELSE intersection(IF var \in DOMAIN res THEN res[var] ELSE R,
                                              vals)))

path(node) == PathOf(heap[node]._path, <<>>)

\* applies that also requires every variable of the query to be on the
\* leaf's path.
applies_onPathOnly(leaf, query) ==
    Let(path(leaf),
        LAMBDA p :
            \A var \in DOMAIN query :
                /\ var \in DOMAIN p
                /\ IF symbolic(var) THEN query[var] \in p[var]
                   ELSE intersects(p[var], query[var]))

\* Leaf.applies(query) for a query of internal values.
applies(leaf, query) ==
    Let(path(leaf),
        LAMBDA p :
            \A var \in (DOMAIN query) \cap (DOMAIN p) :
                IF symbolic(var) THEN query[var] \in p[var]
                ELSE intersects(p[var], query[var]))

\* self.leaves.values(): the leaves in insertion order, which is the order
\* of their ids.
LeafList == [k \in 1..Cardinality(DOMAIN leaves) |->
                leaves[Ascending(DOMAIN leaves)[k]]]

\* The variables of a query the tree does not have.
Unknown(query) == (DOMAIN query) \ Range(variables)

\* JPT.apply(query) consumed as a list: the leaves that apply.
RECURSIVE SelectLeaves(_, _)
SelectLeaves(ls, query) ==
    IF ls = <<>> THEN <<>>
    ELSE (IF applies(Head(ls), query) THEN <<Head(ls)>> ELSE <<>>)
         \o SelectLeaves(Tail(ls), query)

\* The internal value of a query entry: an interval for a list, the
\* domain index for a label.
Internal(var, val) ==
    IF numeric(var) THEN list2interval(val) ELSE IndexOf(labels(var), val)

Internalize(query) == [var \in DOMAIN query |-> Internal(var, query[var])]

\* The product of the probabilities of the values of `vs` under the
\* leaf's distributions.
RECURSIVE Marginal(_, _, _)
Marginal(leaf, q, vs) ==
    IF vs = {} THEN RInt(1)
    ELSE LET var == CHOOSE v \in vs : TRUE
         IN  RMul(P(heap[leaf].distributions[var], var, q[var]),
                  Marginal(leaf, q, vs \ {var}))

\* InferPass adding the query's probability to p_q without the leaf's
\* evidence weight.
InferPass_unweighted(leaf, on_path, p_m, query_, st) ==
    LET free == (DOMAIN query_) \ on_path
        dists == heap[leaf].distributions
        missing == {v \in free : v \notin DOMAIN dists \/ ~ dists[v].fitted}
    IN  IF ~ applies(leaf, query_)
        THEN [st EXCEPT !.p_e = RAdd(st.p_e, p_m)]
        ELSE IF missing # {}
        THEN [st EXCEPT !.status = "Exception",
                        !.p_e = RAdd(st.p_e, p_m),
                        !.heap[leaf].distributions =
                            SetItem(@, CHOOSE v \in missing : TRUE, Unfitted)]
        ELSE Let(Marginal(leaf, query_, free),
                 LAMBDA p_mq :
                    [st EXCEPT !.p_e = RAdd(st.p_e, p_m),
                               !.p_q = RAdd(st.p_q, p_mq),
                               !.candidates = Append(@, leaf),
                               !.weights = Append(@, p_mq)])

\* InferPass adding to p_e only for a leaf that does not apply to the
\* query (p_e += p_m in an else branch).
InferPass_evidenceElse(leaf, on_path, p_m, query_, st) ==
    LET free == (DOMAIN query_) \ on_path
        dists == heap[leaf].distributions
        missing == {v \in free : v \notin DOMAIN dists \/ ~ dists[v].fitted}
    IN  IF ~ applies(leaf, query_)
        THEN [st EXCEPT !.p_e = RAdd(st.p_e, p_m)]
        ELSE IF missing # {}
        THEN [st EXCEPT !.status = "Exception",
                        !.heap[leaf].distributions =
                            SetItem(@, CHOOSE v \in missing : TRUE, Unfitted)]
        ELSE Let(RMul(p_m, Marginal(leaf, query_, free)),
                 LAMBDA p_mq :
                    [st EXCEPT !.p_q = RAdd(st.p_q, p_mq),
                               !.candidates = Append(@, leaf),
                               !.weights = Append(@, p_mq)])

\* One pass of the loop of JPT.infer, for a leaf that applies to the
\* evidence.  st holds p_q, p_e, the candidates and weights so far, and the
\* heap; a pass that raises leaves the exception in st.status.  Looking up
\* a variable the leaf has no distribution of makes the defaultdict insert
\* an unfitted Distribution, whose p() then fails.
InferPass(leaf, on_path, p_m, query_, st) ==
    LET free == (DOMAIN query_) \ on_path
        dists == heap[leaf].distributions
        missing == {v \in free : v \notin DOMAIN dists \/ ~ dists[v].fitted}
    IN  IF ~ applies(leaf, query_)
        THEN [st EXCEPT !.p_e = RAdd(st.p_e, p_m)]
        ELSE IF missing # {}
        THEN [st EXCEPT !.status = "Exception",
                        !.p_e = RAdd(st.p_e, p_m),
                        !.heap[leaf].distributions =
                            SetItem(@, CHOOSE v \in missing : TRUE, Unfitted)]
        ELSE Let(RMul(p_m, Marginal(leaf, query_, free)),
                 LAMBDA p_mq :
                    [st EXCEPT !.p_e = RAdd(st.p_e, p_m),
                               !.p_q = RAdd(st.p_q, p_mq),
                               !.candidates = Append(@, leaf),
                               !.weights = Append(@, p_mq)])

\* InferStep that takes no variable to be on the leaf's path, so that
\* every variable contributes a probability.
InferStep_allVariables(leaf, query_, evidence_, st) ==
    IF heap[root].samples = 0
    THEN [st EXCEPT !.status = "ZeroDivisionError"]
    ELSE Let(RMul(Marginal(leaf, evidence_, DOMAIN evidence_),
                  Rat(heap[leaf].samples, heap[root].samples)),
             LAMBDA p_m : InferPass(leaf, {}, p_m, query_, st))

InferStep(leaf, query_, evidence_, st) ==
    IF heap[root].samples = 0
    THEN [st EXCEPT !.status = "ZeroDivisionError"]
    ELSE Let(DOMAIN path(leaf),
             LAMBDA on_path :
                Let(RMul(Marginal(leaf, evidence_, (DOMAIN evidence_) \ on_path),
                         Rat(heap[leaf].samples, heap[root].samples)),
                    LAMBDA p_m : InferPass(leaf, on_path, p_m, query_, st)))

\* The loop of JPT.infer over the leaves that apply to the evidence; it
\* ends early when a pass raises.
RECURSIVE InferLoop(_, _, _, _)
InferLoop(ls, query_, evidence_, st) ==
    IF ls = <<>> \/ st.status # "ok" THEN st
    ELSE Let(InferStep(Head(ls), query_, evidence_, st),
             LAMBDA st1 : InferLoop(Tail(ls), query_, evidence_, st1))

\* infer returning p_q / p_e whatever p_e is (a float division that
\* yields a value for a zero divisor).
infer_unchecked(query, evidence) ==
    LET query_ == Internalize(query)
        evidence_ == Internalize(evidence)
        st0 == [status |-> "ok", p_q |-> RInt(0), p_e |-> RInt(0),
                candidates |-> <<>>, weights |-> <<>>, heap |-> heap]
    IN  IF Unknown(evidence_) # {}
        THEN [st0 EXCEPT !.status = "TypeError"]
        ELSE InferLoop(SelectLeaves(LeafList, evidence_), query_, evidence_, st0)

\* JPT.infer(query, evidence): the state of its loop when it returns or
\* raises; the division by p_e is the last step.
infer(query, evidence) ==
    LET query_ == Internalize(query)
        evidence_ == Internalize(evidence)
        st0 == [status |-> "ok", p_q |-> RInt(0), p_e |-> RInt(0),
                candidates |-> <<>>, weights |-> <<>>, heap |-> heap]
    IN  IF Unknown(evidence_) # {}
        THEN [st0 EXCEPT !.status = "TypeError"]
        ELSE Let(InferLoop(SelectLeaves(LeafList, evidence_), query_, evidence_, st0),
                 LAMBDA st :
                    IF st.status = "ok" /\ st.p_e = RInt(0)
                    THEN [st EXCEPT !.status = "ZeroDivisionError"]
                    ELSE st)

\* A call of infer: the Result it returns, or the exception.
Infer(query, evidence) ==
    /\ pc = "learned"
    /\ pc' = "returned"
    /\ frame' = [op |-> "infer", query |-> query, evidence |-> evidence]
    /\ \E st \in {infer(query, evidence)} :
        /\ heap' = st.heap
        /\ ret' = IF st.status = "ok"
                  THEN Return("infer", "ok", {},
                              [result |-> RDiv(st.p_q, st.p_e),
                               candidates |-> st.candidates,
                               weights |-> st.weights])
                  ELSE Return("infer", st.status,
                              IF st.status = "TypeError" THEN Unknown(evidence) ELSE {},
                              <<>>)
    /\ UNCHANGED <<hyperparameters, data, leaves,
                   innernodes, root, c45queue, c45log>>

\* A call of apply whose generator is consumed: the leaves, or TypeError
\* naming the variables the tree does not have.
Apply(query) ==
    /\ pc = "learned"
    /\ pc' = "returned"
    /\ frame' = [op |-> "apply", query |-> query]
    /\ ret' = IF Unknown(query) # {}
              THEN Return("apply", "TypeError", Unknown(query), <<>>)
              ELSE Return("apply", "ok", {}, SelectLeaves(LeafList, Internalize(query)))
    /\ UNCHANGED <<hyperparameters, data, heap, leaves,
                   innernodes, root, c45queue, c45log>>

\* reverse's query_: a set of domain indices for a label, an interval
\* for a list, and the whole domain for a variable the query leaves out.
ReverseQuery(query) ==
    [var \in (DOMAIN query) \cup Range(variables) |->
        IF var \in DOMAIN query
        THEN (IF numeric(var) THEN list2interval(query[var])
              ELSE {IndexOf(labels(var), query[var])})
        ELSE (IF numeric(var) THEN list2interval(<<NINF, PINF>>)
              ELSE 0..(n_values(var) - 1))]

\* confs_ of a leaf: for each of its distributions the mass on the query.
RECURSIVE SumP(_, _, _)
SumP(dist, var, svs) ==
    IF svs = {} THEN RInt(0)
    ELSE LET sv == CHOOSE x \in svs : TRUE
         IN  RAdd(P(dist, var, sv), SumP(dist, var, svs \ {sv}))

Confs(leaf, query_) ==
    [v \in DOMAIN heap[leaf].distributions |->
        IF numeric(v) THEN P(heap[leaf].distributions[v], v, query_[v])
        ELSE SumP(heap[leaf].distributions[v], v, query_[v])]

ConfSum(leaf, query_) ==
    RSum([k \in 1..Len(variables) |-> Confs(leaf, query_)[variables[k]]])

\* sorted(candidates, key=sum of confs, reverse=True): stable, descending.
RECURSIVE InsertDesc(_, _, _)
InsertDesc(s, leaf, query_) ==
    IF s = <<>> THEN <<leaf>>
    ELSE IF RLt(ConfSum(Head(s), query_), ConfSum(leaf, query_)) THEN <<leaf>> \o s
         ELSE <<Head(s)>> \o InsertDesc(Tail(s), leaf, query_)

RECURSIVE SortedDesc(_, _)
SortedDesc(s, query_) ==
    IF s = <<>> THEN <<>>
    ELSE InsertDesc(SortedDesc(SubSeq(s, 1, Len(s) - 1), query_), s[Len(s)], query_)

\* The leaves all of whose confidences reach `confidence`, in leaf order.
RECURSIVE Qualifying(_, _, _)
Qualifying(ls, query_, confidence) ==
    IF ls = <<>> THEN <<>>
    ELSE (IF \A v \in DOMAIN Confs(Head(ls), query_) :
                RLe(confidence, Confs(Head(ls), query_)[v])
          THEN <<Head(ls)>> ELSE <<>>)
         \o Qualifying(Tail(ls), query_, confidence)

\* PathToRoot with each node put in front of the list, which makes it run
\* from the root down to the node.
RECURSIVE PathToRoot_rootFirst(_)
PathToRoot_rootFirst(curcand) ==
    IF curcand = None THEN <<>>
    ELSE PathToRoot_rootFirst(heap[curcand].parent) \o <<curcand>>

\* The nodes from a node up to the root, following parent.
RECURSIVE PathToRoot(_)
PathToRoot(curcand) ==
    IF curcand = None THEN <<>>
    ELSE <<curcand>> \o PathToRoot(heap[curcand].parent)

\* reverse without its first statement: a query that names no variable of
\* the tree is evaluated as any other.
reverse_noEarlyReturn(query, confidence) ==
    LET query_ == ReverseQuery(query)
        polluted == {l \in Range(LeafList) :
                        DOMAIN heap[l].distributions # Range(variables)}
    IN  IF polluted # {}
        THEN <<IF \A l \in polluted :
                     DOMAIN heap[l].distributions \subseteq DOMAIN query_
               THEN "Exception" ELSE "KeyError", <<>>>>
        ELSE Let(SortedDesc(Qualifying(LeafList, query_, confidence), query_),
                 LAMBDA candidates :
                    <<"ok", [k \in DOMAIN candidates |->
                                <<Confs(candidates[k], query_),
                                  PathToRoot(candidates[k])>>]>>)

\* JPT.reverse(query, confidence): <<status, paths>>.  A leaf that holds a
\* distribution of a variable the tree does not have makes the loop over
\* its distributions fail.
reverse(query, confidence) ==
    IF (DOMAIN query) \cap Range(variables) = {} THEN <<"ok", <<>>>>
    ELSE LET query_ == ReverseQuery(query)
             polluted == {l \in Range(LeafList) :
                             DOMAIN heap[l].distributions # Range(variables)}
         IN  IF polluted # {}
             THEN <<IF \A l \in polluted :
                          DOMAIN heap[l].distributions \subseteq DOMAIN query_
                    THEN "Exception" ELSE "KeyError", <<>>>>
             ELSE Let(SortedDesc(Qualifying(LeafList, query_, confidence), query_),
                      LAMBDA candidates :
                         <<"ok", [k \in DOMAIN candidates |->
                                     <<Confs(candidates[k], query_),
                                       PathToRoot(candidates[k])>>]>>)

Reverse(query, confidence) ==
    /\ pc = "learned"
    /\ pc' = "returned"
    /\ frame' = [op |-> "reverse", query |-> query, confidence |-> confidence]
    /\ \E r \in {reverse(query, confidence)} :
        ret' = Return("reverse", r[1], {}, r[2])
    /\ UNCHANGED <<hyperparameters, data, heap, leaves,
                   innernodes, root, c45queue, c45log>>

\* A call of JPT.impurity(indices, var) on a tree that has its data.
Impurity(indices, var) ==
    /\ pc = "learned"
    /\ pc' = "returned"
    /\ frame' = [op |-> "impurity", indices |-> indices, var |-> var]
    /\ ret' = Return("impurity", "ok", {}, impurity(indices, var))
    /\ UNCHANGED <<hyperparameters, data, heap, leaves,
                   innernodes, root, c45queue, c45log>>

\* A call of JPT.gains(indices, ft, tgt) on a tree that has its data.
Gains(indices, ft, tgt) ==
    /\ pc = "learned"
    /\ pc' = "returned"
    /\ frame' = [op |-> "gains", indices |-> indices, ft |-> ft, tgt |-> tgt]
    /\ ret' = Return("gains", "ok", {}, gains(indices, ft, tgt))
    /\ UNCHANGED <<hyperparameters, data, heap, leaves,
                   innernodes, root, c45queue, c45log>>

\* A call of JPT.compute_best_split(indices) on a tree that has its data.
ComputeBestSplit(indices) ==
    /\ pc = "learned"
    /\ pc' = "returned"
    /\ frame' = [op |-> "compute_best_split", indices |-> indices]
    /\ ret' = Return("compute_best_split", "ok", {}, compute_best_split(indices))
    /\ UNCHANGED <<hyperparameters, data, heap, leaves,
                   innernodes, root, c45queue, c45log>>

\* ------------------------------------------------ quantile distributions

\* A PiecewiseFunction of ConstantFunctions: the pieces in ascending order,
\* each with the lower end of its interval (NINF for the first; every
\* interval is closed on the left and reaches to the next lower end) and
\* its value.
Piece(lower, value) == [lower |-> lower, value |-> value]

\* PiecewiseFunction.eval(x): the value of the last piece starting at or
\* below x.
eval(plf, x) ==
    LET k == CHOOSE j \in DOMAIN plf :
                 /\ plf[j].lower <= x
                 /\ \A i \in DOMAIN plf : plf[i].lower <= x => i <= j
    IN  plf[k].value

\* QuantileDistribution.from_cdf(plf).
from_cdf(plf) == [cdf |-> plf]

\* QuantileDistribution().fit(data, rows, col) for a single datum: the CDF
\* is 0 below the datum and 1 from it on.
fit(datum) == from_cdf(<<Piece(NINF, RInt(0)), Piece(datum, RInt(1))>>)

\* The lower ends of the pieces of the distributions' CDFs, ascending.
LowerEnds(distributions) ==
    Ascending(UNION {{distributions[i].cdf[j].lower :
                         j \in DOMAIN distributions[i].cdf} :
                     i \in DOMAIN distributions} \ {NINF})

\* A merge that gives every distribution the same weight.
merge_unweighted(distributions, weights) ==
    LET w == [i \in DOMAIN distributions |-> Rat(1, Len(distributions))]
        at(x) == RSum([i \in DOMAIN distributions |->
                          RMul(w[i], eval(distributions[i].cdf, x))])
        ends == LowerEnds(distributions)
    IN  from_cdf(<<Piece(NINF, at(NINF))>>
                 \o [k \in DOMAIN ends |-> Piece(ends[k], at(ends[k]))])

\* QuantileDistribution.merge(distributions, weights): the distribution
\* whose CDF has a piece from every lower end of an input piece, with the
\* weighted sum of the input CDFs there; equal weights when none are given.
merge(distributions, weights) ==
    LET w == IF weights.given THEN weights.value
             ELSE [i \in DOMAIN distributions |-> Rat(1, Len(distributions))]
        at(x) == RSum([i \in DOMAIN distributions |->
                          RMul(w[i], eval(distributions[i].cdf, x))])
        ends == LowerEnds(distributions)
    IN  from_cdf(<<Piece(NINF, at(NINF))>>
                 \o [k \in DOMAIN ends |-> Piece(ends[k], at(ends[k]))])

\* A call of QuantileDistribution.merge(distributions, weights).
Merge(distributions, weights) ==
    /\ pc = "new"
    /\ pc' = "returned"
    /\ frame' = [op |-> "merge", distributions |-> distributions,
                 weights |-> weights]
    /\ ret' = Return("merge", "ok", {}, merge(distributions, weights))
    /\ UNCHANGED <<hyperparameters, data, heap, leaves,
                   innernodes, root, c45queue, c45log>>

\* ------------------------------------------------ inputs and behaviours

\* The training rows: a number for X (counted in halves, so that the
\* midpoint of two data values is exact) and a label for Y.
XValues == {2, 4, 6}
RowInputs == {<<x, l>> : x \in XValues, l \in Range(labels("Y"))}

\* Row order only renames the row indices, so the training sets are
\* enumerated up to it: the rows in ascending (X, Y) order.
RowKey(r) == r[1] * 10 + IndexOf(labels("Y"), r[2])
Datasets ==
    UNION {{ds \in [1..n -> RowInputs] :
               \A k \in 1..(n - 1) : RowKey(ds[k]) <= RowKey(ds[k + 1])}
           : n \in 0..MaxRows}

\* JPT.__init__ for one numeric and one symbolic variable, with the
\* default hyperparameters (min_samples_leaf=1,
\* min_impurity_improvement=None).
Init ==
    /\ precision = None
    /\ variables = <<"X", "Y">>
    /\ min_samples_leaf = 1
    /\ min_impurity_improvement = <<>>
    /\ thresholds = [v \in Range(variables) |-> <<0, 1>>]
    /\ data = <<>>
    /\ heap = <<>>
    /\ leaves = <<>>
    /\ innernodes = <<>>
    /\ root = None
    /\ c45queue = <<>>
    /\ c45log = <<>>
    /\ pc = "new"
    /\ frame = NoFrame
    /\ ret = NoReturn

\* JPT.__init__ for the same variables with any hyperparameters.
InitLearn ==
    /\ precision = None
    /\ variables = <<"X", "Y">>
    /\ min_samples_leaf \in {1, 2}
    /\ min_impurity_improvement \in {<<>>, <<0, 1>>, <<1, 2>>}
    /\ thresholds = [v \in Range(variables) |-> <<0, 1>>]
    /\ data = <<>>
    /\ heap = <<>>
    /\ leaves = <<>>
    /\ innernodes = <<>>
    /\ root = None
    /\ c45queue = <<>>
    /\ c45log = <<>>
    /\ pc = "new"
    /\ frame = NoFrame
    /\ ret = NoReturn

\* A call of learn with any of its three arguments given.
Learn ==
    /\ pc = "new"
    /\ \E ds \in Datasets, args \in SUBSET {"data", "rows", "columns"} :
        learn(IF "data" \in args THEN Given(ds) ELSE NotGiven,
              IF "rows" \in args THEN Given(ds) ELSE NotGiven,
              IF "columns" \in args THEN Given(Transpose(ds)) ELSE NotGiven)

\* The queries: a list [lower, upper] for a numeric variable, a label for
\* a symbolic one, over any subset of the tree's variables and the other
\* variable.
XLists == {<<2, 4>>, <<3, 3>>}
YLabels == {"a", "c"}
ZLists == {<<0, 1>>}
QueryMaps ==
    UNION {{[v \in vs |-> IF v = "X" THEN x ELSE IF v = "Y" THEN y ELSE z] :
               x \in XLists, y \in YLabels, z \in ZLists}
           : vs \in SUBSET (Range(variables) \cup {OtherVariable})}

Confidences == {<<1, 2>>, <<1, 1>>}

\* The pairs infer is called with: at most two entries in all.
InferPairs ==
    {qe \in QueryMaps \X QueryMaps :
        Cardinality(DOMAIN qe[1]) + Cardinality(DOMAIN qe[2]) <= 2}

Query ==
    \/ \E qe \in InferPairs : Infer(qe[1], qe[2])
    \/ \E query \in QueryMaps : Apply(query)
    \/ \E query \in QueryMaps, confidence \in Confidences : Reverse(query, confidence)

NextLearn == Learn \/ c45 \/ learn_return \/ resume

Next == NextLearn \/ Query

\* A tree over the one numeric variable X: the rows 1, 2, 3, 8, 9 (in
\* halves) and every other ascending choice of as many of these values.
ExampleX == <<2, 4, 6, 16, 18>>
ExampleDatasets ==
    {ds \in [DOMAIN ExampleX -> {<<x>> : x \in Range(ExampleX)}] :
        \A k \in 1..(Len(ExampleX) - 1) : ds[k][1] <= ds[k + 1][1]}

\* JPT.__init__ for the variable X alone.
InitExample ==
    /\ precision = None
    /\ variables = <<"X">>
    /\ min_samples_leaf \in {1, 2, 3}
    /\ min_impurity_improvement \in {<<>>, <<0, 1>>}
    /\ thresholds = [v \in Range(variables) |-> <<0, 1>>]
    /\ data = <<>>
    /\ heap = <<>>
    /\ leaves = <<>>
    /\ innernodes = <<>>
    /\ root = None
    /\ c45queue = <<>>
    /\ c45log = <<>>
    /\ pc = "new"
    /\ frame = NoFrame
    /\ ret = NoReturn

\* A call of learn(data) with one of these row lists.
LearnExample ==
    /\ pc = "new"
    /\ \E ds \in ExampleDatasets : learn(Given(ds), NotGiven, NotGiven)

NextExample == LearnExample \/ c45 \/ learn_return \/ resume

\* Trees whose impurity and gains are called: the arithmetic exact or
\* rounding, X one of two numbers whose sum and midpoint the rounding
\* arithmetic holds exactly.
GainXValues == {2, 14}
GainDatasets ==
    UNION {{ds \in [1..n -> {<<x, l>> : x \in GainXValues, l \in Range(labels("Y"))}] :
               \A k \in 1..(n - 1) : RowKey(ds[k]) <= RowKey(ds[k + 1])}
           : n \in 1..MaxRows}

InitGain ==
    /\ precision \in {None, MantissaBits}
    /\ variables = <<"X", "Y">>
    /\ min_samples_leaf = 1
    /\ min_impurity_improvement = <<>>
    /\ thresholds \in {[v \in Range(variables) |-> t] : t \in {<<0, 1>>, <<1, 1>>}}
    /\ data = <<>>
    /\ heap = <<>>
    /\ leaves = <<>>
    /\ innernodes = <<>>
    /\ root = None
    /\ c45queue = <<>>
    /\ c45log = <<>>
    /\ pc = "new"
    /\ frame = NoFrame
    /\ ret = NoReturn

LearnGain ==
    /\ pc = "new"
    /\ \E ds \in GainDatasets : learn(Given(ds), NotGiven, NotGiven)

\* The lists of row indices impurity and gains are called with: every
\* ascending choice of rows, the empty one included.
IndexLists == {Ascending(S) : S \in SUBSET (0..(Len(data) - 1))}

CallImpurity ==
    \E indices \in IndexLists, var \in Range(variables) : Impurity(indices, var)

CallGains ==
    \E indices \in IndexLists, ft \in Range(variables), tgt \in Range(variables) :
        Gains(indices, ft, tgt)

CallComputeBestSplit ==
    \E indices \in IndexLists : ComputeBestSplit(indices)

NextGain ==
    \/ LearnGain \/ c45 \/ learn_return \/ resume
    \/ CallImpurity \/ CallGains \/ CallComputeBestSplit

\* The points of the single-datum distributions: 0, 0.5, 1, 2, 3 (in
\* halves).
JumpPoints == {0, 1, 2, 4, 6}

\* The weight lists for n distributions: equal weights, and every list of
\* positive multiples of 1/WeightParts that sums to 1.
Weights(n) ==
    {[i \in 1..n |-> Rat(1, n)]}
    \cup {[i \in 1..n |-> Rat(c[i], WeightParts)] :
             c \in {c \in [1..n -> 1..WeightParts] : SumSeq(c) = WeightParts}}

\* No tree is learned; distributions are fitted and merged.
InitMerge == Init

\* A call of merge with up to MaxDists single-datum distributions, with
\* weights or without.
CallMerge ==
    \E n \in 1..MaxDists :
        \E weights \in {NotGiven} \cup {Given(w) : w \in Weights(n)} :
            \E points \in [1..n -> JumpPoints] :
                Merge([i \in 1..n |-> fit(points[i])], weights)

NextMerge == CallMerge \/ resume

\* A tree with the default hyperparameters: learning, then queries.
Spec == Init /\ [][Next]_vars

\* Learning under any hyperparameters.
SpecLearn == InitLearn /\ [][NextLearn]_vars

\* Learning a tree over one numeric variable.
SpecExample == InitExample /\ [][NextExample]_vars

\* Calls of impurity and gains on a tree with data.
SpecGain == InitGain /\ [][NextGain]_vars

\* learn is in its while loop with an entry left to take.
InLoop == pc = "learning" /\ c45queue # <<>>

\* Learning when learn keeps running: its while loop takes the next entry
\* as long as there is one, and learn goes on to choose the root once there
\* is none.  The weak fairness of c45 is written out: c45 can be taken
\* exactly when InLoop holds.
SpecLearnFair ==
    /\ SpecLearn
    /\ WF_vars(learn_return)
    /\ ([]<>(~InLoop) \/ []<><<c45>>_vars)

\* The behaviours of merging quantile distributions.
SpecMerge == InitMerge /\ [][NextMerge]_vars

\* ------------------------------------------------ properties of learning

\* learn has returned.
Learned == pc = "returned" /\ frame.op = "learn" /\ ret.status = "ok"

DecisionNodes == {n \in DOMAIN heap : heap[n].type = "DecisionNode"}
LeafNodes == {n \in DOMAIN heap : heap[n].type = "Leaf"}

\* The calls of c45 made for the children of node n; the k-th call created
\* the k-th node.
ChildCalls(n) == {j \in DOMAIN c45log : c45log[j].parent = n}

\* A sequence without repetitions.
NoDuplicates(s) == Cardinality(Range(s)) = Len(s)

\* C1: after learn completes, the row-index sets handed to the children of
\* any DecisionNode are pairwise disjoint and their union is exactly the
\* rows that reached the node; no row is lost, none goes to two children.
C1_ChildrenPartitionRows ==
    Learned =>
        \A n \in DecisionNodes :
            /\ \A i, j \in ChildCalls(n) :
                  i # j => Range(c45log[i].indices) \cap Range(c45log[j].indices) = {}
            /\ \A j \in ChildCalls(n) : NoDuplicates(c45log[j].indices)
            /\ UNION {Range(c45log[j].indices) : j \in ChildCalls(n)}
                  = Range(c45log[n].indices)

\* A learned tree with a symbolic split and a numeric split, each handing
\* rows to at least two children.
C1_Witness ==
    /\ Learned
    /\ \E n, m \in DecisionNodes :
          /\ symbolic(heap[n].dec_criterion)
          /\ numeric(heap[m].dec_criterion)
          /\ Cardinality(ChildCalls(n)) >= 2
          /\ Cardinality(ChildCalls(m)) >= 2

\* C2: during learn on a fresh tree the k-th created node gets id k-1, no
\* id is used twice across innernodes and leaves, and when learn returns
\* the root is the first-created node and has no parent.
C2_IdsInCreationOrder ==
    /\ \A n \in DOMAIN heap : heap[n].idx = n - 1
    /\ (DOMAIN innernodes) \cap (DOMAIN leaves) = {}
    /\ \A i \in DOMAIN innernodes : heap[innernodes[i]].idx = i
    /\ \A i \in DOMAIN leaves : heap[leaves[i]].idx = i
    /\ Learned =>
          /\ root = 1
          /\ heap[root].parent = None
          /\ IF DecisionNodes # {}
             THEN /\ heap[root].type = "DecisionNode"
                  /\ \A n \in DecisionNodes : heap[root].idx <= heap[n].idx
             ELSE LeafNodes = {root}

\* A learned tree with decision nodes and leaves, five nodes or more.
C2_Witness ==
    /\ Learned
    /\ Cardinality(DecisionNodes) >= 2
    /\ Cardinality(LeafNodes) >= 3

\* C3 as stated: after learn completes, every DecisionNode has one child
\* per split constraint and no child slot is empty.
C3_NoEmptyChildSlot ==
    Learned =>
        \A n \in DecisionNodes :
            /\ Len(heap[n].children) = Len(heap[n].splits)
            /\ \A k \in DOMAIN heap[n].children : heap[n].children[k] # None

\* C3, corrected: the children list has the length and order of the splits
\* list; a slot holds the node made for its partition, and it stays empty
\* exactly when no row of the node satisfies its constraint.
C3_ChildPerNonEmptyPartition ==
    Learned =>
        \A n \in DecisionNodes :
            /\ Len(heap[n].children) = Len(heap[n].splits)
            /\ \A k \in DOMAIN heap[n].children :
                  IF c45log[n].split_data[k] = <<>>
                  THEN heap[n].children[k] = None
                  ELSE /\ heap[n].children[k] \in DOMAIN heap
                       /\ heap[heap[n].children[k]].parent = n
                       /\ c45log[heap[n].children[k]].indices = c45log[n].split_data[k]
                       /\ heap[heap[n].children[k]]._path[Len(heap[n]._path) + 1]
                              = <<heap[n].dec_criterion, heap[n].splits[k]>>

\* A learned tree with a decision node one of whose slots is empty and
\* another filled.
C3_Witness ==
    /\ Learned
    /\ \E n \in DecisionNodes :
          /\ \E k \in DOMAIN heap[n].children : heap[n].children[k] = None
          /\ \E k \in DOMAIN heap[n].children : heap[n].children[k] # None

\* The numbers the constraints of a numeric split at m are probed with.
Probes(m) == {NINF + 1, m - 1, m, m + 1, PINF - 1} \cup XValues

\* C4: the split constraints of every DecisionNode are pairwise disjoint
\* and jointly cover the split variable's domain: one singleton index set
\* per domain value for a symbolic split, the two intervals (-inf, m] and
\* (m, +inf) for a numeric split at m.
C4_SplitsDisjointAndCovering ==
    \A n \in DecisionNodes :
        LET var == heap[n].dec_criterion
            splits == heap[n].splits
        IN  IF symbolic(var)
            THEN /\ Len(splits) = n_values(var)
                 /\ \A k \in DOMAIN splits : Cardinality(splits[k]) = 1
                 /\ \A k, l \in DOMAIN splits : k # l => splits[k] \cap splits[l] = {}
                 /\ UNION Range(splits) = 0..(n_values(var) - 1)
            ELSE /\ Len(splits) = 2
                 /\ splits[1].upper = splits[2].lower
                 /\ splits[1] = [lower |-> NINF, upper |-> splits[1].upper,
                                 left |-> "EXC", right |-> "INC"]
                 /\ splits[2] = [lower |-> splits[1].upper, upper |-> PINF,
                                 left |-> "EXC", right |-> "EXC"]
                 /\ \A x \in Probes(splits[1].upper) :
                       Contains(splits[1], x) # Contains(splits[2], x)

\* A tree with a symbolic and a numeric decision node.
C4_Witness ==
    \E n, m \in DecisionNodes :
        symbolic(heap[n].dec_criterion) /\ numeric(heap[m].dec_criterion)

\* C5: after learn completes, the distributions of every Leaf have exactly
\* one entry per variable of the model, each fitted from the variable's
\* column restricted to the rows that reached the leaf, and the leaf's
\* samples is the number of those rows.
C5_LeafDistributionsPerVariable ==
    Learned =>
        \A n \in LeafNodes :
            LET rows == c45log[n].indices
            IN  /\ DOMAIN heap[n].distributions = Range(variables)
                /\ \A k \in DOMAIN variables :
                      /\ heap[n].distributions[variables[k]].fitted
                      /\ heap[n].distributions[variables[k]].data
                            = [j \in DOMAIN rows |-> data[rows[j] + 1][k]]
                /\ heap[n].samples = Len(rows)

\* A learned tree with a leaf holding some but not all of the rows, two or
\* more of them.
C5_Witness ==
    /\ Learned
    /\ \E n \in LeafNodes : heap[n].samples >= 2 /\ heap[n].samples < Len(data)

\* C8: learn called with none or more than one of data, rows and columns
\* fails with an input-validation error before any induction work: the
\* queue stays empty, no node is created, and root, innernodes, leaves and
\* the training matrix are unchanged.
C8_LearnRejectsArgumentCount ==
    (/\ frame.op = "learn"
     /\ Cardinality({a \in {"data", "rows", "columns"} : frame[a].given}) # 1)
        => /\ pc = "returned"
           /\ ret = Return("learn", "ValueError", {}, OnlyEither)
           /\ c45queue = <<>>
           /\ heap = <<>>
           /\ root = None
           /\ innernodes = <<>>
           /\ leaves = <<>>
           /\ data = <<>>

\* learn has rejected a call for the number of its arguments, and the tree
\* is as constructed.
C8_Witness ==
    /\ pc = "returned"
    /\ frame.op = "learn"
    /\ frame.data.given /\ frame.columns.given /\ frame.data.value # <<>>
    /\ ret.status = "ValueError"

\* -------------------------------------------------- properties of paths

\* The edges from the root down to node n, each as the pair of the variable
\* its parent tests and the constraint of the child slot n hangs in.
RECURSIVE EdgesTo(_)
EdgesTo(n) ==
    IF heap[n].parent = None THEN <<>>
    ELSE LET p == heap[n].parent
             k == CHOOSE i \in DOMAIN heap[p].children : heap[p].children[i] = n
         IN  Append(EdgesTo(p), <<heap[p].dec_criterion, heap[p].splits[k]>>)

\* The constraints of the edges that test variable v.
ConstraintsOn(edges, v) == {edges[k][2] : k \in {i \in DOMAIN edges : edges[i][1] = v}}

\* The largest and the smallest of a set of numbers.
Max(S) == CHOOSE x \in S : \A y \in S : y <= x
Min(S) == CHOOSE x \in S : \A y \in S : x <= y

\* The numbers a path interval is probed with: every data value, every
\* number between two of them, and numbers beyond them.
PathProbes == (Min(XValues) - 1)..(Max(XValues) + 1) \cup {NINF + 1, PINF - 1}

\* C11: for every node of a learned tree, path maps each variable tested
\* on an edge between the root and the node to the intersection of the
\* constraints of those edges, and has no entry for any other variable;
\* the leaf under X > m and Y = a of a chain that splits on numeric X at m
\* and then on symbolic Y has path X in (m, +inf), Y in {a}.
C11_PathIsIntersection ==
    Learned =>
        \A n \in DOMAIN heap :
            LET edges == EdgesTo(n)
                p == path(n)
            IN  /\ DOMAIN p = {edges[k][1] : k \in DOMAIN edges}
                /\ \A v \in DOMAIN p :
                      LET cs == ConstraintsOn(edges, v)
                      IN  IF symbolic(v)
                          THEN p[v] = {i \in 0..(n_values(v) - 1) : \A c \in cs : i \in c}
                          ELSE /\ p[v].lower = Max({c.lower : c \in cs})
                               /\ p[v].upper = Min({c.upper : c \in cs})
                               /\ \A x \in PathProbes \cup {p[v].lower, p[v].upper} :
                                     Contains(p[v], x) <=> \A c \in cs : Contains(c, x)
                /\ (/\ Len(edges) = 2
                    /\ edges[1][1] = "X" /\ edges[1][2].upper = PINF
                    /\ edges[2] = <<"Y", {IndexOf(labels("Y"), "a")}>>)
                      => p = [v \in {"X", "Y"} |->
                                 IF v = "X"
                                 THEN Interval(edges[1][2].lower, PINF, "EXC", "EXC")
                                 ELSE {IndexOf(labels("Y"), "a")}]

\* A learned tree with a leaf below two edges that test X, whose path
\* interval is bounded on both sides by the two split points.
C11_Witness ==
    /\ Learned
    /\ \E n \in LeafNodes :
          /\ Len(EdgesTo(n)) = 2
          /\ \A k \in 1..2 : EdgesTo(n)[k][1] = "X"
          /\ path(n)["X"].lower > NINF
          /\ path(n)["X"].upper < PINF

\* A learned chain that splits on X and then on Y, with the leaf under
\* the upper X interval and Y = a.
C11_ChainReached ==
    /\ Learned
    /\ \E n \in LeafNodes :
          /\ Len(EdgesTo(n)) = 2
          /\ EdgesTo(n)[1][1] = "X" /\ EdgesTo(n)[1][2].upper = PINF
          /\ EdgesTo(n)[2] = <<"Y", {0}>>

\* ------------------------------------------------- properties of queries

\* A call of op has returned or raised and the caller has not resumed.
Returned(op) == pc = "returned" /\ frame.op = op

\* Two intervals overlap: some number lies in both.  The ends of the
\* modelled intervals are whole numbers, and an end that bounds an overlap
\* from above is included, so whole numbers decide it.
Overlap(a, b) ==
    \E x \in PathProbes \cup {a.lower, a.upper, b.lower, b.upper} :
        Contains(a, x) /\ Contains(b, x)

\* The assignment q of internal values is consistent with leaf l: every
\* variable of q on l's path has its index in the path's set, or its
\* interval overlapping the path's interval.
Consistent(l, q) ==
    \A var \in (DOMAIN q) \cap (DOMAIN path(l)) :
        IF symbolic(var) THEN q[var] \in path(l)[var]
        ELSE Overlap(path(l)[var], q[var])

\* C12: applies(assignment) is true exactly when every variable that is in
\* the assignment and on the leaf's path has its index in the path's set or
\* its interval overlapping the path's interval; variables off the path
\* never make it false; apply(query) yields exactly the leaves that apply.
C12_ApplyYieldsConsistentLeaves ==
    (Returned("apply") /\ Unknown(frame.query) = {})
        => /\ ret.status = "ok"
           /\ NoDuplicates(ret.value)
           /\ Range(ret.value)
                 = {l \in Range(LeafList) : Consistent(l, Internalize(frame.query))}
           /\ \A l \in Range(LeafList) :
                 applies(l, Internalize(frame.query))
                     <=> Consistent(l, Internalize(frame.query))

\* apply returned some leaves and left out others, for a query over X and
\* Y on a tree where a returned leaf has only one of them on its path.
C12_Witness ==
    /\ Returned("apply")
    /\ DOMAIN frame.query = {"X", "Y"}
    /\ ret.status = "ok"
    /\ ret.value # <<>>
    /\ Range(ret.value) # Range(LeafList)
    /\ \E l \in Range(ret.value) : Cardinality(DOMAIN path(l)) = 1

\* C6: on a learned tree no infer, apply or reverse call changes the tree:
\* root, innernodes, leaves, and every node's parent, children, samples,
\* path and distributions stay as they are.
C6_QueriesLeaveTreeUnchanged ==
    [][pc = "learned" =>
          /\ heap' = heap
          /\ root' = root
          /\ innernodes' = innernodes
          /\ leaves' = leaves]_vars

\* The variables of a call's maps that the tree does not have.
UnknownOf(f) ==
    Unknown(f.query) \cup (IF f.op = "infer" THEN Unknown(f.evidence) ELSE {})

\* C7: apply and infer reject a query or evidence map that references a
\* variable the tree does not have, with a validation failure that names
\* the offending variables, and produce no result.
C7_UnknownVariablesRejected ==
    ((Returned("apply") \/ Returned("infer")) /\ UnknownOf(frame) # {})
        => /\ ret.status = "TypeError"
           /\ ret.names = UnknownOf(frame)
           /\ ret.value = <<>>

\* The evidence weight of a tree with rows, for evidence over the tree's
\* variables: the sum, over the leaves the evidence applies to, of the
\* leaf's share of the rows times the probabilities of the evidence values
\* of the variables off the leaf's path.
RECURSIVE EvidenceWeight(_, _)
EvidenceWeight(ls, evidence_) ==
    IF ls = <<>> THEN RInt(0)
    ELSE RAdd(IF applies(Head(ls), evidence_)
              THEN RMul(Rat(heap[Head(ls)].samples, heap[root].samples),
                        Marginal(Head(ls), evidence_,
                                 (DOMAIN evidence_) \ DOMAIN path(Head(ls))))
              ELSE RInt(0),
              EvidenceWeight(Tail(ls), evidence_))

\* The evidence of the call that returned has weight zero.
ZeroEvidence ==
    IF Unknown(frame.evidence) # {} \/ heap[root].samples = 0 THEN TRUE
    ELSE EvidenceWeight(LeafList, Internalize(frame.evidence)) = RInt(0)

\* The evidence of the call that returned applies to no leaf.
NoLeafApplies ==
    /\ Unknown(frame.evidence) = {}
    /\ \A l \in Range(LeafList) : ~ applies(l, Internalize(frame.evidence))

\* C9: infer fails with an error, and returns no Result, whenever the
\* evidence weight p_e is zero; in particular when the evidence applies to
\* no leaf.
C9_InferFailsOnZeroEvidence ==
    (Returned("infer") /\ (NoLeafApplies \/ ZeroEvidence))
        => ret.status # "ok" /\ ret.value = <<>>

\* infer raised because its evidence, over the tree's variables, applies
\* to no leaf of a tree with rows.
C9_Witness ==
    /\ Returned("infer")
    /\ heap[root].samples > 0
    /\ DOMAIN frame.evidence # {}
    /\ NoLeafApplies
    /\ ret.status = "ZeroDivisionError"

\* C10: on a tree learned from at least one row, infer with an empty query
\* and empty evidence returns exactly 1.
C10_EmptyInferIsOne ==
    (/\ Returned("infer")
     /\ DOMAIN frame.query = {}
     /\ DOMAIN frame.evidence = {}
     /\ Len(data) >= 1)
        => /\ ret.status = "ok"
           /\ ret.value.result = RInt(1)

\* infer({}, {}) returned 1 on a tree with three leaves or more.
C10_Witness ==
    /\ Returned("infer")
    /\ DOMAIN frame.query = {}
    /\ DOMAIN frame.evidence = {}
    /\ Cardinality(DOMAIN leaves) >= 3
    /\ ret.status = "ok"
    /\ ret.value.result = RInt(1)

\* ------------------------------------------------ properties of reverse

\* The leaf of a pair reverse returned: the one Leaf in its node list.
LeafOf(pair) == CHOOSE n \in Range(pair[2]) : heap[n].type = "Leaf"

\* The share of the rows of leaf l whose value of model variable v lies in
\* the query's interval or is the query's label; 1 for a variable the
\* query leaves out.
Mass(l, v, query) ==
    LET rows == c45log[l].indices
        var_idx == IndexOf(variables, v)
        inside(i) == IF v \notin DOMAIN query THEN TRUE
                     ELSE IF numeric(v)
                     THEN query[v][1] <= At(i, var_idx) /\ At(i, var_idx) <= query[v][2]
                     ELSE labels(v)[At(i, var_idx) + 1] = query[v]
    IN  Rat(Cardinality({k \in DOMAIN rows : inside(rows[k])}), Len(rows))

MassSum(l, query) == RSum([k \in DOMAIN variables |-> Mass(l, variables[k], query)])

\* What C13 says of a call of reverse that has returned: the leaves of
\* the pairs are those whose confidence reaches the call's for every model
\* variable, each once, in the order of descending confidence sums.
QualifyingReturned ==
    /\ ret.status = "ok"
    /\ LET returned == [k \in DOMAIN ret.value |-> LeafOf(ret.value[k])]
       IN  /\ NoDuplicates(returned)
           /\ Range(returned)
                 = {l \in Range(LeafList) :
                       \A v \in Range(variables) :
                           RLe(frame.confidence, Mass(l, v, frame.query))}
           /\ \A k \in DOMAIN returned :
                 ret.value[k][1] = [v \in Range(variables) |->
                                       Mass(returned[k], v, frame.query)]
           /\ \A k \in 1..(Len(returned) - 1) :
                 RLe(MassSum(returned[k + 1], frame.query),
                     MassSum(returned[k], frame.query))

\* C13: reverse(query, confidence) returns exactly the leaves for which
\* the confidence of every model variable (the mass of the leaf's
\* distribution on the query's interval or label, or on the whole domain
\* for a variable the query leaves out) is >= confidence, ordered by
\* descending sum of the confidences.
C13_ReverseReturnsQualifyingLeaves ==
    Returned("reverse") => QualifyingReturned

\* No leaf holds a distribution of a variable the tree does not have.
Unpolluted ==
    \A l \in Range(LeafList) : DOMAIN heap[l].distributions = Range(variables)

\* reverse does as C13 says on a tree whose leaves hold distributions of
\* the model's variables only, for a query naming one of them.
ReverseOnUnpollutedTree ==
    (/\ Returned("reverse")
     /\ Unpolluted
     /\ (DOMAIN frame.query) \cap Range(variables) # {})
        => QualifyingReturned

\* reverse raised on a query that names a model variable.
ReverseRaised ==
    /\ Returned("reverse")
    /\ (DOMAIN frame.query) \cap Range(variables) # {}
    /\ ret.status # "ok"

\* reverse returned some leaves and left out others.
ReverseSelected ==
    /\ Returned("reverse")
    /\ ret.status = "ok"
    /\ Len(ret.value) >= 2
    /\ Len(ret.value) < Cardinality(DOMAIN leaves)

\* C14 as stated: each pair reverse returns carries the node path of its
\* leaf in root-to-leaf order: the first node is the root, the last the
\* leaf, and each node is the parent of the next.
C14_PathsRootToLeaf ==
    (Returned("reverse") /\ ret.status = "ok") =>
        \A k \in DOMAIN ret.value :
            LET p == ret.value[k][2]
            IN  /\ p # <<>>
                /\ p[1] = root
                /\ heap[p[Len(p)]].type = "Leaf"
                /\ \A i \in 1..(Len(p) - 1) : heap[p[i + 1]].parent = p[i]

\* C14, corrected: each pair carries the node path of its leaf in
\* leaf-to-root order: the first node is the qualifying leaf, the last is
\* the tree's root, and the parent of each node is the next one.
C14_PathsLeafToRoot ==
    (Returned("reverse") /\ ret.status = "ok") =>
        \A k \in DOMAIN ret.value :
            LET p == ret.value[k][2]
            IN  /\ p # <<>>
                /\ heap[p[1]].type = "Leaf"
                /\ p[1] \in Range(LeafList)
                /\ \A v \in Range(variables) :
                      RLe(frame.confidence, Mass(p[1], v, frame.query))
                /\ p[Len(p)] = root
                /\ heap[root].parent = None
                /\ \A i \in 1..(Len(p) - 1) : heap[p[i]].parent = p[i + 1]

\* reverse returned a pair whose leaf lies two edges below the root.
C14_Witness ==
    /\ Returned("reverse")
    /\ ret.status = "ok"
    /\ \E k \in DOMAIN ret.value : Len(ret.value[k][2]) = 3

\* C15: reverse returns an empty sequence, without evaluating any leaf,
\* whenever none of the query's variables is a variable of the model; this
\* includes the empty query.
C15_ReverseEmptyOnDisjointQuery ==
    (Returned("reverse") /\ (DOMAIN frame.query) \cap Range(variables) = {})
        => /\ ret.status = "ok"
           /\ ret.value = <<>>

\* reverse returned the empty sequence for a query over the other variable
\* only, on a tree with a leaf every confidence of which is 1.
C15_Witness ==
    /\ Returned("reverse")
    /\ DOMAIN frame.query = {OtherVariable}
    /\ Cardinality(DOMAIN leaves) >= 2
    /\ ret.status = "ok"
    /\ ret.value = <<>>

\* ---------------------------------------- properties of the split search

\* C16: learning from the 5 rows X = 1, 2, 3, 8, 9 of one numeric variable
\* with min_samples_leaf = 2 and min_impurity_improvement = 0 produces
\* exactly three nodes: the decision node with id 0 that splits X at 5.5
\* (11 in halves) and two leaves, of the 3 rows with X <= 5.5 and of the 2
\* rows with X > 5.5; neither child is split further.
C16_OneSplitAtTheGap ==
    (/\ Learned
     /\ variables = <<"X">>
     /\ frame.data.value = [k \in DOMAIN ExampleX |-> <<ExampleX[k]>>]
     /\ min_samples_leaf = 2
     /\ min_impurity_improvement = RInt(0))
        => /\ Len(heap) = 3
           /\ DOMAIN innernodes = {0}
           /\ DOMAIN leaves = {1, 2}
           /\ root = innernodes[0]
           /\ heap[root].type = "DecisionNode"
           /\ heap[root].idx = 0
           /\ heap[root].dec_criterion = "X"
           /\ heap[root].splits = << Interval(NINF, 11, "EXC", "INC"),
                                     Interval(11, PINF, "EXC", "EXC") >>
           /\ heap[root].children = <<leaves[1], leaves[2]>>
           /\ heap[leaves[1]].type = "Leaf" /\ heap[leaves[2]].type = "Leaf"
           /\ heap[leaves[1]].samples = 3 /\ heap[leaves[2]].samples = 2
           /\ c45log[leaves[1]].indices = <<0, 1, 2>>
           /\ c45log[leaves[2]].indices = <<3, 4>>
           /\ heap[leaves[1]].distributions["X"].data = <<2, 4, 6>>
           /\ heap[leaves[2]].distributions["X"].data = <<16, 18>>

\* learn has returned for these rows and hyperparameters.
C16_Witness ==
    /\ Learned
    /\ variables = <<"X">>
    /\ frame.data.value = [k \in DOMAIN ExampleX |-> <<ExampleX[k]>>]
    /\ min_samples_leaf = 2
    /\ min_impurity_improvement = RInt(0)
    /\ Cardinality(DecisionNodes) = 1

\* The target variable takes a single value on the rows `indices`.
ConstantOn(indices, tgt) ==
    Cardinality({At(i, IndexOf(variables, tgt)) : i \in Range(indices)}) = 1

\* C17: for every row set on which the target variable takes a single
\* value, impurity(rows, target) is 0 and gains(rows, splitVar, target) is
\* 0 for every split variable and every candidate split key; the impurity
\* of the empty row set is 0.
C17_ZeroOnConstantTarget ==
    /\ (Returned("impurity")
           /\ (frame.indices = <<>> \/ ConstantOn(frame.indices, frame.var)))
          => ret.value = RInt(0)
    /\ (Returned("gains") /\ ConstantOn(frame.indices, frame.tgt))
          => \A k \in DOMAIN ret.value : ret.value[k][2] = RInt(0)

\* With exact arithmetic the impurity and the gains of a constant target
\* are 0.
ZeroOnConstantTargetWhenExact ==
    precision = None => C17_ZeroOnConstantTarget

\* gains has returned for a constant target and three rows that the
\* split variable divides.
GainsOfConstantTarget ==
    /\ Returned("gains")
    /\ Len(frame.indices) = 3
    /\ ConstantOn(frame.indices, frame.tgt)
    /\ ~ ConstantOn(frame.indices, frame.ft)

\* impurity returned a number other than 0 for a numeric target with a
\* single value.
ImpurityOfConstantNotZero ==
    /\ Returned("impurity")
    /\ numeric(frame.var)
    /\ ConstantOn(frame.indices, frame.var)
    /\ ret.value # RInt(0)

\* ------------------------------------------- properties of leaf sizes

\* The partitions of decision node n that hold rows.
RowPartitions(n) ==
    {k \in DOMAIN c45log[n].split_data : c45log[n].split_data[k] # <<>>}

\* C18: when the training set (the rows of the first call of c45) has at
\* least min_samples_leaf rows, every node learn has created, leaf or
\* decision node, holds at least min_samples_leaf rows, and every
\* partition with rows of a selected split has that many.
C18_NodesHoldMinSamples ==
    (c45log # <<>> /\ Len(c45log[1].indices) >= min_samples_leaf)
    => \A n \in DOMAIN heap :
          /\ heap[n].samples = Len(c45log[n].indices)
          /\ heap[n].samples >= min_samples_leaf
          /\ \A k \in RowPartitions(n) :
                Len(c45log[n].split_data[k]) >= min_samples_leaf

\* learn has split with min_samples_leaf = 2: there is a leaf of exactly
\* two rows, and a node of three rows that was not split although its
\* rows differ.
C18_Witness ==
    /\ Learned
    /\ min_samples_leaf = 2
    /\ DecisionNodes # {}
    /\ \E l \in LeafNodes : heap[l].samples = 2
    /\ \E l \in LeafNodes :
          /\ heap[l].samples = 3
          /\ Cardinality({At(i, 0) : i \in Range(c45log[l].indices)}) > 1

\* ----------------------------------------------- properties of merging

\* The arguments and the expected CDF of test_dist_merge_jump_functions:
\* data 1, 2, 3 with weights 1/3 each.
test_dist_merge_jump_functions ==
    [distributions |-> <<fit(2), fit(4), fit(6)>>,
     weights |-> Given(<<Rat(1, 3), Rat(1, 3), Rat(1, 3)>>),
     expected |-> <<Piece(NINF, RInt(0)), Piece(2, Rat(1, 3)),
                    Piece(4, Rat(2, 3)), Piece(6, RInt(1))>>]

\* The arguments and the expected CDF of test_merge_jumps: jumps at 0 and
\* at 0.5, no weights.
test_merge_jumps ==
    [distributions |-> <<from_cdf(<<Piece(NINF, RInt(0)), Piece(0, RInt(1))>>),
                         from_cdf(<<Piece(NINF, RInt(0)), Piece(1, RInt(1))>>)>>,
     weights |-> NotGiven,
     expected |-> <<Piece(NINF, RInt(0)), Piece(0, Rat(1, 2)),
                    Piece(1, RInt(1))>>]

\* The points at which CDFs are compared: every modelled point, its
\* neighbours, and the numbers next to the infinities.
MergeProbes == (Min(JumpPoints) - 1)..(Max(JumpPoints) + 1) \cup {NINF + 1, PINF - 1}

\* The weights of a merge call: those given, else 1/n each.
WeightsOf(f) ==
    IF f.weights.given THEN f.weights.value
    ELSE [i \in DOMAIN f.distributions |-> Rat(1, Len(f.distributions))]

\* The point of the i-th distribution of a merge call of single-datum
\* distributions.
JumpOf(f, i) == f.distributions[i].cdf[2].lower

\* The sum of the weights of the distributions selected by Sel(i).
WeightOver(f, Sel(_)) ==
    RSum([i \in DOMAIN f.distributions |->
             IF Sel(i) THEN WeightsOf(f)[i] ELSE RInt(0)])

C19_JumpFunctionsTestReached ==
    /\ Returned("merge")
    /\ frame.distributions = test_dist_merge_jump_functions.distributions
    /\ frame.weights = test_dist_merge_jump_functions.weights

\* merge has returned for the arguments of test_merge_jumps.
C19_MergeJumpsTestReached ==
    /\ Returned("merge")
    /\ frame.distributions = test_merge_jumps.distributions
    /\ frame.weights = test_merge_jumps.weights

\* ---------------------------------------- properties of one c45 call

\* Row i lies in the k-th split of decision node nd.
InSplit(nd, i, k) ==
    LET x == At(i, IndexOf(variables, nd.dec_criterion))
    IN  IF symbolic(nd.dec_criterion) THEN x \in nd.splits[k]
        ELSE Contains(nd.splits[k], x)

\* The queue entries for the children of decision node nd (heap node n)
\* with the given rows: for every split from the k-th on that holds rows,
\* in the order of the splits, the rows in it, the node and the slot.
RECURSIVE EntriesOf(_, _, _, _)
EntriesOf(nd, n, rows, k) ==
    IF k > Len(nd.splits) THEN <<>>
    ELSE LET part == SelectSeq(rows, LAMBDA i : InSplit(nd, i, k))
         IN  (IF part = <<>> THEN <<>> ELSE << <<part, n, k - 1>> >>)
             \o EntriesOf(nd, n, rows, k + 1)

\* C20: every step that processes a queue entry creates exactly one node
\* and registers it: a Leaf when the entry has at most min_samples_leaf
\* rows or the best combined score of its rows is at most
\* min_impurity_improvement (0 when that is None), a DecisionNode
\* otherwise; a Leaf only removes the entry from the queue, a DecisionNode
\* also appends one entry per split that holds rows.
C20_OneNodePerEntry ==
    [][(pc = "learning" /\ c45queue # <<>>) =>
        \E rows \in {Head(c45queue)[1]} :
        \E nd \in {heap'[Len(heap')]} :
        \E isleaf \in {
                \/ Len(rows) <= min_samples_leaf
                \/ \E best \in {Impurity_compute_best_split(rows)} :
                      RLe(best[3], IF min_impurity_improvement = <<>> THEN RInt(0)
                                   ELSE min_impurity_improvement)} :
        LET n == Len(heap) + 1
        IN  /\ Len(heap') = n
            /\ \A m \in DOMAIN heap : heap'[m].type = heap[m].type
            /\ nd.type = IF isleaf THEN "Leaf" ELSE "DecisionNode"
            /\ nd.parent = Head(c45queue)[2]
            /\ IF isleaf
               THEN /\ DOMAIN leaves' = DOMAIN leaves \cup {nd.idx}
                    /\ leaves'[nd.idx] = n
                    /\ innernodes' = innernodes
                    /\ c45queue' = Tail(c45queue)
               ELSE /\ DOMAIN innernodes' = DOMAIN innernodes \cup {nd.idx}
                    /\ innernodes'[nd.idx] = n
                    /\ leaves' = leaves
                    /\ c45queue' = Tail(c45queue) \o EntriesOf(nd, n, rows, 1)
                    /\ Len(c45queue') > Len(Tail(c45queue))
    ]_vars

\* learn has made a leaf of an entry with at most min_samples_leaf rows, a
\* leaf of an entry with more rows (the best score was too small) and a
\* decision node with one empty and two filled partitions.
C20_Witness ==
    /\ Learned
    /\ \E l \in LeafNodes : Len(c45log[l].indices) <= min_samples_leaf
    /\ \E l \in LeafNodes : Len(c45log[l].indices) > min_samples_leaf
    /\ \E n \in DecisionNodes :
          /\ Cardinality(ChildCalls(n)) = 2
          /\ Len(heap[n].splits) = 3

\* ------------------------------------- properties of the creation order

\* The number of parent references from node n up to a node without one.
RECURSIVE Depth(_)
Depth(n) == IF heap[n].parent = None THEN 0 ELSE 1 + Depth(heap[n].parent)

\* The parent of every queue entry is a DecisionNode that has been created
\* and registered; every node but the first has a larger id than its
\* parent; a node nearer to the root has a smaller id than a deeper one.
ParentsFirst ==
    /\ \A e \in 1..Len(c45queue) :
          LET parent == c45queue[e][2]
          IN  IF parent = None THEN heap = <<>> /\ Len(c45queue) = 1
              ELSE /\ parent \in DecisionNodes
                   /\ heap[parent].idx \in DOMAIN innernodes
                   /\ innernodes[heap[parent].idx] = parent
    /\ \A n \in DOMAIN heap :
          IF n = 1 THEN heap[n].parent = None
          ELSE /\ heap[n].parent \in DecisionNodes
               /\ heap[heap[n].parent].idx < heap[n].idx
    /\ \A n, m \in DOMAIN heap :
          Depth(n) < Depth(m) => heap[n].idx < heap[m].idx

\* A step of learn's loop takes the entry at the front of the queue, makes
\* the next node of it, and leaves the other entries in their order, with
\* any new entries behind them.
FirstInFirstOut ==
    (pc = "learning" /\ c45queue # <<>>) =>
        /\ Len(c45log') = Len(c45log) + 1
        /\ c45log'[Len(c45log')].indices = Head(c45queue)[1]
        /\ c45log'[Len(c45log')].parent = Head(c45queue)[2]
        /\ c45log'[Len(c45log')].child_idx = Head(c45queue)[3]
        /\ Len(c45queue') >= Len(c45queue) - 1
        /\ SubSeq(c45queue', 1, Len(c45queue) - 1) = Tail(c45queue)
        /\ \A e \in Len(c45queue)..Len(c45queue') :
              c45queue'[e][2] = Len(heap')

\* C21: learn processes the queue first-in first-out and enqueues an
\* entry only once its parent decision node is created and registered;
\* every node but the root has a larger id than its parent and a node at
\* depth d has a smaller id than every deeper node.
C21_FifoBreadthFirst == []ParentsFirst /\ [][FirstInFirstOut]_vars

\* A learned tree with two nodes at depth 1, the first of which has
\* children, so that the second was made before the first one's children.
C21_Witness ==
    /\ Learned
    /\ \E n, m, c \in DOMAIN heap :
          /\ Depth(n) = 1 /\ Depth(m) = 1 /\ Depth(c) = 2
          /\ heap[c].parent = n
          /\ n < m /\ m < c

\* ---------------------------------------------- properties of gains

\* The candidates of a numeric split variable on the rows `indices`: the
\* midpoints of consecutive distinct values, ascending, or the one value.
Midpoints(indices, ft) ==
    LET values == Ascending({At(i, IndexOf(variables, ft)) : i \in Range(indices)})
    IN  IF Len(values) > 1
        THEN [k \in 1..(Len(values) - 1) |-> (values[k] + values[k + 1]) \div 2]
        ELSE values

\* The rows of `indices` at or below m, and those above it.
LeftOf(indices, ft, m) ==
    SelectSeq(indices, LAMBDA i : At(i, IndexOf(variables, ft)) <= m)
RightOf(indices, ft, m) ==
    SelectSeq(indices, LAMBDA i : At(i, IndexOf(variables, ft)) > m)

\* What gains returned has one entry per candidate, in ascending order,
\* and the entry of a candidate with a side of fewer than
\* min_samples_leaf rows is 0.
NumericGainEntries ==
    (Returned("gains") /\ numeric(frame.ft) /\ frame.indices # <<>>) =>
        LET mids == Midpoints(frame.indices, frame.ft)
        IN  /\ Len(ret.value) = Len(mids)
            /\ \A k \in DOMAIN mids :
                  /\ ret.value[k][1] = mids[k]
                  /\ (\/ Len(LeftOf(frame.indices, frame.ft, mids[k])) < min_samples_leaf
                      \/ Len(RightOf(frame.indices, frame.ft, mids[k])) < min_samples_leaf)
                     => ret.value[k][2] = RInt(0)

\* The candidates of the returned gains with min_samples_leaf rows or more
\* on either side.
ValidCandidates ==
    {k \in DOMAIN ret.value :
        /\ Len(LeftOf(frame.indices, frame.ft, ret.value[k][1])) >= min_samples_leaf
        /\ Len(RightOf(frame.indices, frame.ft, ret.value[k][1])) >= min_samples_leaf}

\* C22: with exact arithmetic, for a numeric split variable gains returns
\* one entry per midpoint of consecutive distinct values (the value itself
\* when there is one), 0 when a side has fewer than min_samples_leaf rows
\* and otherwise impurity(rows) - (|left| * impurity(left)
\* + |right| * impurity(right)) / |rows|.
C22_NumericGainIsWeightedDifference ==
    (Returned("gains") /\ numeric(frame.ft) /\ frame.indices # <<>>
        /\ precision = None) =>
        /\ NumericGainEntries
        /\ \A k \in ValidCandidates :
              LET left == LeftOf(frame.indices, frame.ft, ret.value[k][1])
                  right == RightOf(frame.indices, frame.ft, ret.value[k][1])
              IN  ret.value[k][2]
                  = RSub(impurity(frame.indices, frame.tgt),
                         RDiv(RAdd(RMul(RInt(Len(left)), impurity(left, frame.tgt)),
                                   RMul(RInt(Len(right)), impurity(right, frame.tgt))),
                              RInt(Len(frame.indices))))

\* What the code computes instead, with exact arithmetic: the impurity of
\* the left side is divided by the number of rows twice.
NumericGainDividesLeftTwice ==
    (Returned("gains") /\ numeric(frame.ft) /\ frame.indices # <<>>
        /\ precision = None) =>
        /\ NumericGainEntries
        /\ \A k \in ValidCandidates :
              LET left == LeftOf(frame.indices, frame.ft, ret.value[k][1])
                  right == RightOf(frame.indices, frame.ft, ret.value[k][1])
                  n == RInt(Len(frame.indices))
              IN  ret.value[k][2]
                  = RSub(RSub(impurity(frame.indices, frame.tgt),
                              RDiv(RMul(RInt(Len(left)), impurity(left, frame.tgt)),
                                   RMul(n, n))),
                         RDiv(RMul(RInt(Len(right)), impurity(right, frame.tgt)), n))

\* gains has returned for a candidate whose left side has rows of
\* different target values.
NumericGainOfImpureLeft ==
    /\ Returned("gains") /\ numeric(frame.ft) /\ precision = None
    /\ \E k \in ValidCandidates :
          impurity(LeftOf(frame.indices, frame.ft, ret.value[k][1]), frame.tgt)
              # RInt(0)

\* The rows of `indices` on which ft has the value x.
RowsWith(indices, ft, x) ==
    SelectSeq(indices, LAMBDA i : At(i, IndexOf(variables, ft)) = x)

\* The values ft takes on the rows `indices`, ascending.
ValuesOf(indices, ft) ==
    Ascending({At(i, IndexOf(variables, ft)) : i \in Range(indices)})

\* impurity(rows, target) minus the sum, over the values of ft present,
\* of the share of the rows with that value times their target impurity.
WeightedDifference(indices, ft, tgt) ==
    LET values == ValuesOf(indices, ft)
    IN  RSub(impurity(indices, tgt),
             RSum([k \in DOMAIN values |->
                     RMul(Rat(Len(RowsWith(indices, ft, values[k])), Len(indices)),
                          impurity(RowsWith(indices, ft, values[k]), tgt))]))

SymbolicGainBelowThreshold ==
    /\ Returned("gains") /\ symbolic(frame.ft)
    /\ RLt(RInt(0), WeightedDifference(frame.indices, frame.ft, frame.tgt))
    /\ ret.value[1][2] = RInt(0)

\* ------------------------------------- properties of the split search

\* The gains of every target t and split variable f for the rows, as
\* gains returns them.
AllGains(indices) ==
    [t \in DOMAIN variables |->
        [f \in DOMAIN variables |-> gains(indices, variables[f], variables[t])]]

\* The pairs of a split variable and one of its candidates.
Pairs(G) == UNION {{<<f, k>> : k \in DOMAIN G[1][f]} : f \in DOMAIN variables}

\* The largest gain of target t, or 0 when no gain is positive.
LargestGain(G, t) ==
    LET all == {G[t][p[1]][p[2]][2] : p \in Pairs(G)} \cup {RInt(0)}
    IN  CHOOSE g \in all : \A h \in all : RLe(h, g)

\* The score of a pair: the mean over the targets of the pair's gain
\* divided by the target's largest gain (0 when that is 0).
Score(G, p) ==
    RDiv(RSum([t \in DOMAIN variables |->
                 IF RLt(RInt(0), LargestGain(G, t))
                 THEN RDiv(G[t][p[1]][p[2]][2], LargestGain(G, t))
                 ELSE RInt(0)]),
         RInt(Len(variables)))

\* Pair p comes before pair q: an earlier split variable, or the same one
\* and an earlier (smaller) candidate.
Before(p, q) == p[1] < q[1] \/ (p[1] = q[1] /\ p[2] < q[2])

\* C24: compute_best_split returns the pair of a split variable and a
\* candidate with the largest score, the first such pair in the order of
\* the variables and then of the ascending candidates, with its score:
\* the mean over the targets of the gains divided by the target's largest
\* gain (0 when it is 0); the candidates of a variable are ascending and
\* the score lies between 0 and 1.
C24_BestSplitIsFirstMaximum ==
    Returned("compute_best_split") =>
        \E G \in {AllGains(frame.indices)} :
            \E S \in {[p \in Pairs(G) |-> Score(G, p)]} :
                \E b \in Pairs(G) :
                    /\ \A p \in Pairs(G) : RLe(S[p], S[b])
                    /\ \A p \in Pairs(G) : S[p] = S[b] => (p = b \/ Before(b, p))
                    /\ ret.value = <<b[1] - 1, G[1][b[1]][b[2]][1], S[b]>>
                    /\ RLe(RInt(0), S[b]) /\ RLe(S[b], RInt(1))
                    /\ \A p, q \in Pairs(G) :
                          (p[1] = q[1] /\ p[2] < q[2] /\ numeric(variables[p[1]]))
                          => G[1][p[1]][p[2]][1] < G[1][q[1]][q[2]][1]

\* compute_best_split chose between two pairs of the same, positive
\* score, and a target had gains that were divided by a largest gain
\* other than 1.
C24_Witness ==
    /\ Returned("compute_best_split")
    /\ RLt(RInt(0), ret.value[3])
    /\ \E G \in {AllGains(frame.indices)} :
          /\ \E p, q \in Pairs(G) : p # q /\ Score(G, p) = ret.value[3]
                                     /\ Score(G, q) = ret.value[3]
          /\ \E t \in DOMAIN variables :
                /\ RLt(RInt(0), LargestGain(G, t))
                /\ LargestGain(G, t) # RInt(1)

\* ---------------------------------------------- properties of infer

\* The product of the numbers of a sequence.
RECURSIVE Product(_)
Product(s) == IF s = <<>> THEN RInt(1) ELSE RMul(Head(s), Product(Tail(s)))

\* For leaf l and the assignment q (internal values): the product, over
\* the variables of q that are not on l's path, of the probability of
\* the variable's value under l's distribution.
OffPathProbability(l, q) ==
    LET off == SelectSeq(variables,
                         LAMBDA v : v \in DOMAIN q /\ v \notin DOMAIN path(l))
    IN  Product([k \in DOMAIN off |->
                    P(heap[l].distributions[off[k]], off[k], q[off[k]])])

\* What leaf l adds to p_e: its share of the rows times the probability
\* of the evidence off its path.
EvidenceShare(l, evidence_) ==
    RMul(Rat(heap[l].samples, heap[root].samples),
         OffPathProbability(l, evidence_))

\* C25: when infer returns a Result for a query and evidence over the
\* tree's variables, p_e is the sum over the leaves the evidence applies
\* to of samples / root.samples times the probabilities of the evidence
\* values of the variables off the leaf's path; the leaves that also apply
\* to the query are the candidates, in the order of the leaves, and the
\* weight of each is that product times the probabilities of the query
\* values of the variables off its path; p_q is the sum of the weights
\* and the result is p_q / p_e.  Variables on the path add no factor.
C25_InferSumsLeafShares ==
    (Returned("infer") /\ ret.status = "ok") =>
        LET query_ == Internalize(frame.query)
            evidence_ == Internalize(frame.evidence)
            applying == SelectSeq(LeafList, LAMBDA l : Consistent(l, evidence_))
            both == SelectSeq(applying, LAMBDA l : Consistent(l, query_))
            p_e == RSum([k \in DOMAIN applying |->
                            EvidenceShare(applying[k], evidence_)])
            weights == [k \in DOMAIN both |->
                           RMul(EvidenceShare(both[k], evidence_),
                                OffPathProbability(both[k], query_))]
        IN  /\ ret.value.candidates = both
            /\ ret.value.weights = weights
            /\ p_e # RInt(0)
            /\ ret.value.result = RDiv(RSum(weights), p_e)

\* infer returned a Result with two candidates or more, one of them with
\* a query variable on its path and an evidence variable off it, and a
\* result other than 0 and 1.
C25_Witness ==
    /\ Returned("infer") /\ ret.status = "ok"
    /\ Len(ret.value.candidates) >= 2
    /\ ret.value.result \notin {RInt(0), RInt(1)}
    /\ \E k \in DOMAIN ret.value.candidates :
          LET l == ret.value.candidates[k]
          IN  /\ (DOMAIN frame.query) \cap (DOMAIN path(l)) # {}
              /\ (DOMAIN frame.evidence) \ (DOMAIN path(l)) # {}

\* C29: whenever infer returns a Result, its result lies between 0 and 1:
\* every candidate's weight, which is what the leaf adds to p_q, is at most
\* what the leaf adds to p_e, so p_q is at most p_e.
C29_ResultIsProbability ==
    (Returned("infer") /\ ret.status = "ok") =>
        LET evidence_ == Internalize(frame.evidence)
            applying == SelectSeq(LeafList, LAMBDA l : Consistent(l, evidence_))
            p_e == RSum([k \in DOMAIN applying |->
                            EvidenceShare(applying[k], evidence_)])
        IN  /\ RLe(RInt(0), ret.value.result)
            /\ RLe(ret.value.result, RInt(1))
            /\ \A k \in DOMAIN ret.value.weights :
                  /\ RLe(RInt(0), ret.value.weights[k])
                  /\ RLe(ret.value.weights[k],
                         EvidenceShare(ret.value.candidates[k], evidence_))
            /\ RLe(RSum(ret.value.weights), p_e)

\* infer returned a result strictly between 0 and 1 with a candidate whose
\* weight is less than what the leaf adds to p_e, while another leaf adds
\* to p_e alone.
C29_Witness ==
    /\ Returned("infer") /\ ret.status = "ok"
    /\ RLt(RInt(0), ret.value.result)
    /\ RLt(ret.value.result, RInt(1))
    /\ \E k \in DOMAIN ret.value.weights :
          RLt(ret.value.weights[k],
              EvidenceShare(ret.value.candidates[k], Internalize(frame.evidence)))
    /\ \E l \in Range(LeafList) \ Range(ret.value.candidates) :
          Consistent(l, Internalize(frame.evidence))

\* ------------------------------------------ properties of the samples

\* The samples of the children decision node n has (an empty child slot
\* counts nothing).
ChildSamples(n) ==
    SumSeq([k \in DOMAIN heap[n].children |->
               IF heap[n].children[k] = None THEN 0
               ELSE heap[heap[n].children[k]].samples])

\* C26: after learn completes, the samples of the leaves sum to the
\* number of training rows, which is the root's samples, and the samples
\* of every decision node are the sum of the samples of its children.
C26_SamplesAddUp ==
    Learned =>
        /\ SumSeq([n \in DOMAIN heap |->
                     IF n \in LeafNodes THEN heap[n].samples ELSE 0]) = Len(data)
        /\ heap[root].samples = Len(data)
        /\ \A n \in DecisionNodes : heap[n].samples = ChildSamples(n)

\* A learned tree of three rows with two decision nodes, one of which
\* has an empty child slot.
C26_Witness ==
    /\ Learned
    /\ Len(data) = 3
    /\ Cardinality(DecisionNodes) >= 2
    /\ \E n \in DecisionNodes, k \in 1..3 :
          k \in DOMAIN heap[n].children /\ heap[n].children[k] = None

\* -------------------------------------------- properties of termination

\* Every entry in the queue and every node but the first was given
\* strictly fewer rows than the node that enqueued it, and no two calls
\* of c45 were made for the same child slot of the same node.
FewerRowsThanParent ==
    /\ \A e \in 1..Len(c45queue) :
          c45queue[e][2] # None
          => Len(c45queue[e][1]) < Len(c45log[c45queue[e][2]].indices)
    /\ \A n \in DOMAIN c45log :
          c45log[n].parent # None
          => Len(c45log[n].indices) < Len(c45log[c45log[n].parent].indices)
    /\ \A n, m \in DOMAIN c45log :
          (c45log[n].parent = c45log[m].parent
             /\ c45log[n].child_idx = c45log[m].child_idx) => n = m
    /\ \A e \in 1..Len(c45queue), n \in DOMAIN c45log :
          ~ (c45queue[e][2] = c45log[n].parent /\ c45queue[e][3] = c45log[n].child_idx)

\* C27: learn terminates with the queue empty, whatever the training set:
\* every entry a decision node enqueues has strictly fewer rows than the
\* entry the node was made of, and every entry is processed once.
C27_LearnTerminates ==
    /\ []FewerRowsThanParent
    /\ (pc = "learning") ~> (Learned /\ c45queue = <<>>)

\* learn has returned with the queue empty after making a tree of three
\* levels.
C27_Witness ==
    /\ Learned
    /\ c45queue = <<>>
    /\ \E n \in DOMAIN heap : Depth(n) = 2

\* ------------------------------------------ properties of full assignments

\* The assignment of one value to every variable of the tree, as a query
\* of internal values: a numeric value x is the interval [x, x].
Assignment(value) ==
    [var \in Range(variables) |->
        IF symbolic(var) THEN value[var] ELSE list2interval(<<value[var], value[var]>>)]

\* The stored values of row i (counted from 0).
RowValues(i) == [var \in Range(variables) |-> At(i, IndexOf(variables, var))]

\* One value for every variable: each domain index, and the numbers at,
\* between and beyond the data values.
FullValues ==
    {value \in [Range(variables) ->
                   PathProbes \cup 0..(n_values("Y") - 1)] :
        \A var \in Range(variables) :
            IF symbolic(var) THEN value[var] \in 0..(n_values(var) - 1)
            ELSE value[var] \in PathProbes}

\* The values satisfy the leaf's path: on every variable of the path the
\* value is in the path's set or interval.
Satisfies(value, leaf) ==
    \A var \in DOMAIN path(leaf) :
        IF symbolic(var) THEN value[var] \in path(leaf)[var]
        ELSE Contains(path(leaf)[var], value[var])

\* C28: after learn completes every training row, as a full assignment of
\* its stored values, satisfies the path of the leaf that got the row and
\* applies to that leaf and to no other; and no full assignment of single
\* values applies to two leaves.
C28_RowsApplyToTheirLeafOnly ==
    Learned =>
        /\ \A i \in 0..(Len(data) - 1) :
              \E leaf \in LeafNodes :
                  /\ i \in Range(c45log[leaf].indices)
                  /\ Satisfies(RowValues(i), leaf)
                  /\ \A l \in LeafNodes :
                        applies(l, Assignment(RowValues(i))) <=> l = leaf
        /\ \A value \in FullValues :
              \A l, m \in LeafNodes :
                  (applies(l, Assignment(value)) /\ applies(m, Assignment(value)))
                      => l = m

\* A learned tree of three levels with three rows in three leaves, and a
\* full assignment that applies to no leaf.
C28_Witness ==
    /\ Learned
    /\ Len(data) = 3
    /\ Cardinality(LeafNodes) = 3
    /\ \E n \in DOMAIN heap : Depth(n) = 2
    /\ \E value \in FullValues :
          \A l \in LeafNodes : ~ applies(l, Assignment(value))

\* ------------------------------------------------- properties of links

\* The child slots that hold node n: pairs of a node and a slot (from 1).
SlotsOf(n) ==
    UNION {{<<m, k>> : k \in {j \in DOMAIN heap[m].children : heap[m].children[j] = n}}
           : m \in DOMAIN heap}

\* The nodes reached from n through children links, n included.
RECURSIVE Descendants(_)
Descendants(n) ==
    {n} \cup UNION {Descendants(c) : c \in Range(heap[n].children) \ {None}}

\* C30: after learn completes, every node but the root has a parent that
\* is a DecisionNode registered in innernodes, and is in exactly one child
\* slot, a slot of that parent; the ids in innernodes and in leaves are
\* disjoint and together are 0..N-1 for N created nodes; every node is
\* reached from the root through children links.
C30_LinksAgree ==
    Learned =>
        /\ heap[root].parent = None
        /\ SlotsOf(root) = {}
        /\ \A n \in (DOMAIN heap) \ {root} :
              /\ heap[n].parent \in DecisionNodes
              /\ heap[heap[n].parent].idx \in DOMAIN innernodes
              /\ innernodes[heap[heap[n].parent].idx] = heap[n].parent
              /\ Cardinality(SlotsOf(n)) = 1
              /\ \A sl \in SlotsOf(n) : sl[1] = heap[n].parent
        /\ (DOMAIN innernodes) \cap (DOMAIN leaves) = {}
        /\ (DOMAIN innernodes) \cup (DOMAIN leaves) = 0..(Len(heap) - 1)
        /\ \A i \in DOMAIN innernodes :
              innernodes[i] \in DecisionNodes /\ heap[innernodes[i]].idx = i
        /\ \A i \in DOMAIN leaves :
              leaves[i] \in LeafNodes /\ heap[leaves[i]].idx = i
        /\ Descendants(root) = DOMAIN heap

\* A learned tree with a decision node under the root, an empty child slot
\* and five nodes or more.
C30_Witness ==
    /\ Learned
    /\ Len(heap) >= 5
    /\ \E n \in DecisionNodes : n # root /\ None \in Range(heap[n].children)

=============================================================================
